---------------------------- MODULE Spec2Model ----------------------------
(***************************************************************************)
(* Chess UCI network bridge: the relay rendezvous server                   *)
(* (deploy/linux/relay_server.py), the engine session manager and the      *)
(* trust / rate filter of the bridge (deploy/linux/chess.py).              *)
(*                                                                         *)
(* Both programs are single-threaded asyncio programs.  An action of the   *)
(* model is the code a coroutine runs between two suspension points        *)
(* (await of a read, a drain, an event, a sleep, a subprocess, a lock that *)
(* is held): such a piece runs atomically on the event loop.               *)
(***************************************************************************)
EXTENDS Naturals, Integers, Sequences, FiniteSets, TLC

\* ------------------------------------------------------------------ bounds
NConn == 3          \* relay connections accepted over the run
NIds == 2           \* distinct session ids the peers use
MaxBytes == 2       \* bytes the peers send over the run, all connections together
NBridges == 3       \* client connections (bridges) to the engine ports over the run
NEngines == 1       \* engine names
MaxKeepalive == 2   \* largest session_keepalive_timeout tried
MaxTime == 3        \* the clock stops here
NPeers == 3         \* client connections that reach the trust gate over the run
NAddr == 2          \* peer addresses, all of one /24 network
MaxAttempts == 1    \* config["max_connection_attempts"]
MaxSubnetAttempts == 2  \* config["max_connection_attempts_from_untrusted_subnet"]
Period == 1         \* config["connection_attempt_period"]
MaxCmds == 2        \* client lines one bridge relays over the run
MaxLines == 3       \* engine output lines one throttler sees over the run
MaxThrottle == 2    \* largest info_throttle_ms tried
MaxMs == 3          \* milliseconds the throttler's clock advances over the run
NMux == 1           \* connections to the multiplexed port over the run
NNames == 3         \* engine names a configuration or a client may use
MaxReg == 2         \* engines in the registry at most
MaxFwd == 1         \* client lines the bridge of a multiplexed connection relays
MaxDials == 3       \* open_connection calls one relay_listener makes over the run
MaxInterval == 2    \* largest heartbeat_time tried
MaxHbTime == 5      \* the heartbeat's clock stops here
NPortEngines == 2       \* engine descriptors with a port
MaxPort == 3            \* configured ports and ports bound by others are in 1..MaxPort
MaxProbe == 3           \* find_available_port: max_attempts

MaxArrivals == 2    \* connections arriving where the whole run of the session manager is explored
MaxIdle == 2            \* inactivity_timeout in watchdog periods

MaxCopyConns == 3   \* connections where the relayed sessions are followed to their end
MaxBootLines == 2   \* lines the engine prints while one bridge starts up
MaxLimit == 2       \* largest max_connections tried

None == 0
Conn == 1..NConn
SessionIds == 1..NIds
Bridge == 1..NBridges
Proc == Bridge          \* a process is named by the bridge whose call spawned it
Task == Bridge          \* an expiry task is named by the bridge whose release made it
EngineNames == 1..NEngines
Peer == 1..NPeers
IPs == 1..NAddr
MuxConn == 1..NMux
MuxNames == 1..NNames
OrchTasks == {"listener", "dialer", "upnp_renewal", "watchdog"}
PortEngine == 1..NPortEngines       \* numbered in sorted(ALL_ENGINES.keys()) order

\* ------------------------------------------- the start-up of one bridge
\* what an engine prints around its start-up, as line.split() of the
\* stripped line; the last one holds uciok inside a longer word
BootLines == {<<"id", "name">>, <<"uciok">>, <<"option", "name", "nouciok">>}

\* a line of the engine that is not UTF-8: data.decode() raises
GarbledOut == <<"garbled">>

\* what the client of a starting bridge sends
BootClientLines == {<<"setoption", "name", "Hash", "value", "128">>, <<"go", "depth", "20">>}

\* the words that have uciok as a substring
UciokWords == {"uciok", "nouciok"}

\* ------------------------------------------- the copy loops of one bridge
\* what the engine of a running bridge prints: an info line, which it may
\* repeat, and a line that is not an info line
LoopLines == {<<"info", "depth", "1">>, <<"bestmove", "e2e4">>}

\* the heartbeat's isready among the numbered lines of the client
Isready == 0

VARIABLES
    \* ---- relay_server.py
    MAX_SESSIONS,   \* the --max-sessions argument
    sessions,       \* session id -> its record (named by the server connection that made it) or None
    sessions_lock,  \* the connection whose handler holds the lock, or None
    pc,             \* position of the handler of each connection
    sid,            \* session id of the connection's SESSION line
    client,         \* record -> client_reader/client_writer (a connection) or None
    paired_event,   \* record -> paired_event.is_set()
    clientOf,       \* server handler's locals client_reader/client_writer
    session,        \* client handler's local `session` (a record)
    closed,         \* writer.is_closing() of each connection
    peerEof,        \* the peer has shut its sending side
    sent,           \* bytes the peer has sent after its SESSION line
    rd,             \* bytes the relay has read from the connection's reader
    lines,          \* protocol lines written to the connection's writer
    data,           \* relayed bytes written to the connection's writer
    pipe,           \* reader connection -> position of the pipe() task reading it
    pipeTo,         \* reader connection -> the connection pipe() writes to
    \* ---- history of the relay
    supersededBy,   \* record -> the connection whose registration replaced it
    oldLegs,        \* connection -> the writers of the record its registration replaced
    closedAtReg,    \* connection -> the writers closed when REGISTERED was written to it
    pairedSent,     \* server handler has called writer.write(b"PAIRED\n")
    pairedAtSup,    \* pairedSent of a record's handler when it was superseded
    \* ---- chess.py, SessionManager and the bridges that use it
    keepalive,      \* config["session_keepalive_timeout"]
    now,            \* the clock
    sm_sessions,    \* SessionManager._sessions: name -> [process, expiry_task], process None: no entry
    bpc,            \* position of each bridge (client_handler)
    bname,          \* engine_name of the bridge
    engine_process, \* the bridge's engine_process
    reattached,     \* the bridge's reattached flag
    procState,      \* "none", "alive", "exited" (returncode set), "terminating", "terminated"
    task,           \* expiry task: "none", "sleeping", "cancelled", "waiting", "done"
    deadline,       \* when the sleep of the expiry task ends
    \* ---- history of the session manager
    lookupProc,     \* the process the registry held for the name when the bridge looked it up
    lookupAlive,    \* whether that process was alive then
    releasedAt,     \* name -> time of the release that left the session warm, or -1
    \* ---- chess.py, trust gate, rate filter and auth handshake of client_handler
    config,         \* the loaded configuration
    firewall,       \* the firewall backend: "noop" or "windows" (netsh subprocesses)
    connection_attempts,        \* address -> timestamps (<<>>: no entry)
    subnet_connection_attempts, \* /24 network -> timestamps (<<>>: no entry)
    auto_trusted_ips,
    gpc,            \* position of client_handler for each connection
    client_ip,      \* the peer address of the connection
    glines,         \* lines written to the connection
    reply,          \* what the client answered to the greeting
    \* ---- history of the gate
    acquired,       \* client_handler has reached the engine for the connection
    recorded,       \* timestamps appended on behalf of the connection
    entryAtOpen,    \* length of the address's entry when the connection arrived
    entryAtClose,   \* length of the address's entry when the connection was closed
    appends,        \* address -> timestamps ever appended
    block_ip_calls, \* address -> calls of firewall.block_ip
    clears,         \* address -> times the entry was dropped after a threshold check
    \* ---- chess.py, client_handler.process_client_commands
    engine_customs,   \* ALL_ENGINES[engine_name]["custom_variables"]: option name -> value
    CUSTOM_VARIABLES, \* the global custom_variables: option name -> value
    client_cmds,      \* the commands read from the client, each as command.split(' ')
    engine_stdin,     \* the commands written to the engine, in the same form
    \* ---- chess.py, OutputThrottler
    throttle_ms,    \* config["info_throttle_ms"]
    last_send_time, \* OutputThrottler.last_send_time (ms)
    last_depth,     \* OutputThrottler.last_depth, NoDepth for None
    pending_info,   \* OutputThrottler.pending_info, <<>> for None
    clock_ms,       \* time.time() * 1000
    out_log,        \* history: [line, t, fwd] of every call of should_forward
    \* ---- chess.py, multiplex_handler
    ALL_ENGINES,    \* the registry: the engine names in insertion order
    default_engine, \* config["default_engine"], None when empty
    mpc,            \* connection -> "new" | "select_wait" | "bridge" | "closed" | "raised"
    mlines,         \* connection -> the lines written to the client
    first_line,     \* connection -> the first line read, NoLine before
    sel_line,       \* connection -> the line read after the engine list, NoLine before
    rpos,           \* connection -> the lines read from the client so far
    bridge_engine,  \* connection -> the engine client_handler was called with, or None
    engine_in,      \* connection -> what the bridge wrote to the engine's stdin
    \* ---- chess.py, relay_listener
    listener_engine,   \* the engine_name argument
    listener_config,   \* the config argument, the trust switch of it
    lpc,               \* "dial" | "registering" | "pairing" | "bridge" | "pause" | "cancelled"
    dials,             \* open_connection calls completed
    wire,              \* per connection opened: what was written to and read from it
    writer_closed,     \* the connections relay_listener closed itself
    handoffs,          \* the handler calls: connection, handler, configuration passed
    cancel_requested,  \* task.cancel() was called on the listener
    \* ---- chess.py, heartbeat
    hb_interval,    \* the interval argument
    hb_now,         \* the clock
    hb_wake,        \* when the running asyncio.sleep(interval) is due
    hpc,            \* "sleep" | "drain" | "stopped" | "raised" | "cancelled"
    hb_stdin,       \* the writes to engine_process.stdin: text and time
    hb_client,      \* the writes to the client's writer
    stdin_broken,   \* the engine has exited or its pipe is broken
    \* ---- chess.py, main: graceful shutdown
    main_pc,        \* "serving" | "shutdown_all" | "terminate_wait" | "gather" | "completed"
    names,          \* shutdown_all: the names of the snapshot not yet terminated
    sd_waiting,     \* the process _terminate is waiting for, or None
    task_state,     \* each task main started: "running" | "cancelled" | "finished"
    pid_file,       \* the PID file exists
    via,            \* bridge -> "none" | "listener" (a task of its own) | "dialer" (inside relay_listener)
    \* ---- chess.py, resolve_ports (per-engine mode)
    configured,     \* engine -> the port of its descriptor before resolve_ports
    details_port,   \* engine -> details["port"]
    claimed,        \* resolve_ports: the local set claimed
    in_use,         \* the ports on which bind() fails now
    rp_next,        \* the next engine of the sorted loop; NPortEngines + 1 after the loop
    rp_raised,      \* find_available_port raised OSError out of resolve_ports
    free_at_probe,  \* engine -> the ports on which bind() succeeded while its port was searched
    \* ---- chess.py, SessionManager: history of the expiry tasks
    pending_at,     \* bridge -> the expiry tasks of its name still sleeping when its get_or_create returned
    \* ---- chess.py, client_handler: one bridge from acquisition to its end
    ch_keepalive,       \* session_keepalive_timeout
    ch_pc,              \* "acquire" | "uci_init" | "await_uciok" | "steady" | "finally" | "wait" | "close" | "wait_closed" | "left"
    held,               \* engine_process is not None
    client_loop,        \* process_client_commands: "off" | "running" | "ended"
    engine_loop,        \* process_engine_responses: "off" | "running" | "ended"
    heartbeat_task,     \* "none" | "running" | "ended" | "cancelled"
    inactivity_task,    \* "running" | "ended" | "cancelled"
    is_closing,         \* writer.is_closing()
    transport_closes,   \* times the client transport was told to close
    ch_engine,          \* "none" | "alive" | "exited" | "terminating" | "terminated"
    ch_released,        \* "no" | "release" | "terminate"
    peer,               \* the client's end: "open" | "eof"
    client_pending,     \* lines the client has sent that were not read yet
    engine_pending,     \* lines the engine has printed that were not read yet
    idle_for,           \* watchdog periods since last_activity_time
    cancelled,          \* the handler's task was cancelled
    \* ---- relay_server.py: the stale sweeper and cancelled handlers
    stale,          \* the records registered more than STALE_TIMEOUT ago
    cancelled_at,   \* connection -> where its handler was when it was cancelled, or "no"
    \* ---- chess.py: client_handler from `uci` to the copy loops, line by line
    bt_pc,          \* "uci", "customs", "await_uciok", "steady", "finally", "left"
    items,          \* the option names of custom_variables in the order of the dict
    bt_next,        \* position of the start-up loop in items
    bt_engine,      \* "alive", "exited", "killed"
    stdout_q,       \* lines the engine printed that were not read yet
    bt_emitted,     \* number of lines the engine printed
    to_client,      \* lines written to the client's writer
    bt_closed,      \* writer.close() was called
    bt_peer,        \* "open", "gone": the client's side of the connection
    client_q,       \* lines the client sent that were not read yet
    bt_sent,        \* number of lines the client sent
    got_uciok,      \* the local of that name
    loops_started,  \* process_client_commands and process_engine_responses were started
    \* ---- chess.py: the two copy loops of client_handler, line by line
    ln_read,        \* number of lines process_client_commands has read
    ln_blank,       \* the lines among them that were empty once stripped
    ln_stdin,       \* what the engine has received: numbers of client lines, Isready
    ln_engine,      \* "alive", "exited"
    ln_written,     \* numbers of the engine's lines written to the client, in order
    ln_client_loop, \* "running", "ended": process_client_commands
    ln_engine_loop, \* "running", "ended": process_engine_responses
    ln_peer,        \* "open", "gone": the client's side of the connection
    \* ---- chess.py: the connection semaphore of client_handler
    MAX_CONNECTIONS, \* the global of that name, from max_connections
    sem,            \* handler -> the value of the semaphore it created, None before
    sem_pc          \* handler -> "new", "created", "inside", "holding", "left"

relayVars == <<MAX_SESSIONS, sessions, sessions_lock, pc, sid, client, paired_event,
               clientOf, session, closed, peerEof, sent, rd, lines, data, pipe,
               pipeTo, supersededBy, oldLegs, closedAtReg, pairedSent, pairedAtSup>>

smVars == <<keepalive, now, sm_sessions, bpc, bname, engine_process, reattached,
            procState, task, deadline, lookupProc, lookupAlive, releasedAt>>

gateVars == <<config, firewall, connection_attempts, subnet_connection_attempts,
              auto_trusted_ips, gpc, client_ip, glines, reply, acquired, recorded,
              entryAtOpen, entryAtClose, appends, block_ip_calls, clears>>

optVars == <<engine_customs, CUSTOM_VARIABLES, client_cmds, engine_stdin>>

thrVars == <<throttle_ms, last_send_time, last_depth, pending_info, clock_ms, out_log>>

muxVars == <<ALL_ENGINES, default_engine, mpc, mlines, first_line, sel_line, rpos,
             bridge_engine, engine_in>>

dialVars == <<listener_engine, listener_config, lpc, dials, wire, writer_closed, handoffs,
              cancel_requested>>

hbVars == <<hb_interval, hb_now, hb_wake, hpc, hb_stdin, hb_client, stdin_broken>>

sdVars == <<main_pc, names, sd_waiting, task_state, pid_file, via>>

portVars == <<configured, details_port, claimed, in_use, rp_next, rp_raised, free_at_probe>>

raVars == <<pending_at>>

chVars == <<ch_keepalive, ch_pc, held, client_loop, engine_loop, heartbeat_task, inactivity_task,
            is_closing, transport_closes, ch_engine, ch_released, peer, client_pending,
            engine_pending, idle_for, cancelled>>

ukVars == <<stale, cancelled_at>>

bootVars == <<bt_pc, items, bt_next, bt_engine, stdout_q, bt_emitted, to_client, bt_closed,
              bt_peer, client_q, bt_sent, got_uciok, loops_started>>

lnVars == <<ln_read, ln_blank, ln_stdin, ln_engine, ln_written, ln_client_loop,
            ln_engine_loop, ln_peer>>

semVars == <<MAX_CONNECTIONS, sem, sem_pc>>

vars == <<relayVars, smVars, gateVars, optVars, thrVars, muxVars, dialVars, hbVars, sdVars, portVars, raVars, chVars, ukVars, bootVars, lnVars, semVars>>

\* what the steps of one part of the program leave alone
notRelay == <<smVars, gateVars, optVars, thrVars, muxVars, dialVars, hbVars, sdVars, portVars, raVars, chVars, ukVars, bootVars, lnVars, semVars>>
notSM == <<relayVars, gateVars, optVars, thrVars, muxVars, dialVars, hbVars, sdVars, portVars, raVars, chVars, ukVars, bootVars, lnVars, semVars>>
notGate == <<relayVars, smVars, optVars, thrVars, muxVars, dialVars, hbVars, sdVars, portVars, raVars, chVars, ukVars, bootVars, lnVars, semVars>>
notOpt == <<relayVars, smVars, gateVars, thrVars, muxVars, dialVars, hbVars, sdVars, portVars, raVars, chVars, ukVars, bootVars, lnVars, semVars>>
notThr == <<relayVars, smVars, gateVars, optVars, muxVars, dialVars, hbVars, sdVars, portVars, raVars, chVars, ukVars, bootVars, lnVars, semVars>>
notMux == <<relayVars, smVars, gateVars, optVars, thrVars, dialVars, hbVars, sdVars, portVars, raVars, chVars, ukVars, bootVars, lnVars, semVars>>
notDial == <<relayVars, smVars, gateVars, optVars, thrVars, muxVars, hbVars, sdVars, portVars, raVars, chVars, ukVars, bootVars, lnVars, semVars>>
notHb == <<relayVars, smVars, gateVars, optVars, thrVars, muxVars, dialVars, sdVars, portVars, raVars, chVars, ukVars, bootVars, lnVars, semVars>>
notShut == <<relayVars, smVars, gateVars, optVars, thrVars, muxVars, dialVars, hbVars, portVars, raVars, chVars, ukVars, bootVars, lnVars, semVars>>
notPorts == <<relayVars, smVars, gateVars, optVars, thrVars, muxVars, dialVars, hbVars, sdVars, raVars, chVars, ukVars, bootVars, lnVars, semVars>>
notReattach == <<relayVars, smVars, gateVars, optVars, thrVars, muxVars, dialVars, hbVars, sdVars, portVars, chVars, ukVars, bootVars, lnVars, semVars>>
notHandler == <<relayVars, smVars, gateVars, optVars, thrVars, muxVars, dialVars, hbVars, sdVars, portVars, raVars, ukVars, bootVars, lnVars, semVars>>
notUpkeep == <<relayVars, smVars, gateVars, optVars, thrVars, muxVars, dialVars, hbVars, sdVars, portVars, raVars, chVars, bootVars, lnVars, semVars>>
notBoot == <<relayVars, smVars, gateVars, optVars, thrVars, muxVars, dialVars, hbVars, sdVars, portVars, raVars, chVars, ukVars, lnVars, semVars>>
notLines == <<relayVars, smVars, gateVars, optVars, thrVars, muxVars, dialVars, hbVars, sdVars, portVars, raVars, chVars, ukVars, bootVars, semVars>>
notSem == <<relayVars, smVars, gateVars, optVars, thrVars, muxVars, dialVars, hbVars, sdVars, portVars, raVars, chVars, ukVars, bootVars, lnVars>>
notSMShut == <<relayVars, gateVars, optVars, thrVars, muxVars, dialVars, hbVars, portVars, raVars, chVars, ukVars, bootVars, lnVars, semVars>>
notSMReattach == <<relayVars, gateVars, optVars, thrVars, muxVars, dialVars, hbVars, sdVars, portVars, chVars, ukVars, bootVars, lnVars, semVars>>
notRelayUpkeep == <<smVars, gateVars, optVars, thrVars, muxVars, dialVars, hbVars, sdVars, portVars, raVars, chVars, bootVars, lnVars, semVars>>
notOptBoot == <<relayVars, smVars, gateVars, thrVars, muxVars, dialVars, hbVars, sdVars, portVars, raVars, chVars, ukVars, lnVars, semVars>>
notThrLines == <<relayVars, smVars, gateVars, optVars, muxVars, dialVars, hbVars, sdVars, portVars, raVars, chVars, ukVars, bootVars, semVars>>

\* ------------------------------------------------------------------ relay
Range(s) == {s[i] : i \in DOMAIN s}

Min(a, b) == IF a < b THEN a ELSE b

\* writer.write(item): a transport that is closing drops what is written to it
Write(o, cl, c, item) == IF cl[c] THEN o ELSE [o EXCEPT ![c] = Append(@, item)]

\* for w in ws: if not w.is_closing(): w.close()
CloseAll(cl, ws) == [w \in Conn |-> cl[w] \/ w \in ws]

\* the writers a record holds
Legs(rec) == {rec} \cup (IF client[rec] = None THEN {} ELSE {client[rec]})

\* mutant: the supersession closes the old server leg and forgets the client leg
CloseOldServerOnly(cl, old) == CloseAll(cl, {old})

\* handle_server_role, supersession: the old record's writers are closed
CloseOld(cl, old) == CloseAll(cl, Legs(old))

\* reader.read() returns b"" : the peer shut down, or the transport was closed
Eof(r) == peerEof[r] \/ closed[r]

InitRelay ==
    /\ MAX_SESSIONS \in {1, NIds}
    /\ sessions = [i \in SessionIds |-> None]
    /\ sessions_lock = None
    /\ pc = [c \in Conn |-> "new"]
    /\ sid = [c \in Conn |-> None]
    /\ client = [c \in Conn |-> None]
    /\ paired_event = [c \in Conn |-> FALSE]
    /\ clientOf = [c \in Conn |-> None]
    /\ session = [c \in Conn |-> None]
    /\ closed = [c \in Conn |-> FALSE]
    /\ peerEof = [c \in Conn |-> FALSE]
    /\ sent = [c \in Conn |-> 0]
    /\ rd = [c \in Conn |-> 0]
    /\ lines = [c \in Conn |-> <<>>]
    /\ data = [c \in Conn |-> <<>>]
    /\ pipe = [c \in Conn |-> "off"]
    /\ pipeTo = [c \in Conn |-> None]
    /\ supersededBy = [c \in Conn |-> None]
    /\ oldLegs = [c \in Conn |-> {}]
    /\ closedAtReg = [c \in Conn |-> {}]
    /\ pairedSent = [c \in Conn |-> FALSE]
    /\ pairedAtSup = [c \in Conn |-> FALSE]

\* handle_connection lines 173-193: the SESSION line of a new connection is read.
\* Connections are numbered in the order their first line arrives and session
\* ids in the order they are first used.
Accepts(c, id) ==
    /\ pc[c] = "new"
    /\ \A d \in Conn : d < c => pc[d] # "new"
    /\ \A j \in SessionIds : j < id => \E d \in Conn : sid[d] = j

\* mutant: the limit is tested with > instead of >=
ServerRegisterNewOverLimit(c, id) ==
    /\ Accepts(c, id) /\ sessions_lock = None
    /\ sessions[id] = None
    /\ Cardinality({i \in SessionIds : sessions[i] # None}) <= MAX_SESSIONS
    /\ sessions' = [sessions EXCEPT ![id] = c]
    /\ sid' = [sid EXCEPT ![c] = id]
    /\ lines' = Write(lines, closed, c, "REGISTERED")
    /\ closedAtReg' = [closedAtReg EXCEPT ![c] = {w \in Conn : closed[w]}]
    /\ pc' = [pc EXCEPT ![c] = "s_reg_drain"]
    /\ UNCHANGED <<MAX_SESSIONS, sessions_lock, client, paired_event, clientOf, session,
                   closed, peerEof, sent, rd, data, pipe, pipeTo, supersededBy,
                   oldLegs, pairedSent, pairedAtSup>>

\* handle_server_role lines 55-93, no record for the id and room for one
ServerRegisterNew(c, id) ==
    /\ Accepts(c, id) /\ sessions_lock = None
    /\ sessions[id] = None
    /\ Cardinality({i \in SessionIds : sessions[i] # None}) < MAX_SESSIONS
    /\ sessions' = [sessions EXCEPT ![id] = c]
    /\ sid' = [sid EXCEPT ![c] = id]
    /\ lines' = Write(lines, closed, c, "REGISTERED")
    /\ closedAtReg' = [closedAtReg EXCEPT ![c] = {w \in Conn : closed[w]}]
    /\ pc' = [pc EXCEPT ![c] = "s_reg_drain"]
    /\ UNCHANGED <<MAX_SESSIONS, sessions_lock, client, paired_event, clientOf, session,
                   closed, peerEof, sent, rd, data, pipe, pipeTo, supersededBy,
                   oldLegs, pairedSent, pairedAtSup>>

\* handle_server_role lines 55-93, a record exists for the id: supersession
ServerSupersede(c, id) ==
    /\ Accepts(c, id) /\ sessions_lock = None
    /\ sessions[id] # None
    /\ LET old == sessions[id]
           closed1 == CloseOld(closed, old)
       IN /\ closed' = closed1
          /\ paired_event' = [paired_event EXCEPT ![old] = TRUE]
          /\ sessions' = [sessions EXCEPT ![id] = c]
          /\ lines' = Write(lines, closed1, c, "REGISTERED")
          /\ closedAtReg' = [closedAtReg EXCEPT ![c] = {w \in Conn : closed1[w]}]
          /\ supersededBy' = [supersededBy EXCEPT ![old] = c]
          /\ oldLegs' = [oldLegs EXCEPT ![c] = Legs(old)]
          /\ pairedAtSup' = [pairedAtSup EXCEPT ![old] = pairedSent[old]]
    /\ sid' = [sid EXCEPT ![c] = id]
    /\ pc' = [pc EXCEPT ![c] = "s_reg_drain"]
    /\ UNCHANGED <<MAX_SESSIONS, sessions_lock, client, clientOf, session, peerEof,
                   sent, rd, data, pipe, pipeTo, pairedSent>>

\* handle_server_role lines 75-77: ERROR max sessions reached, drain under the lock
ServerRejectMax(c, id) ==
    /\ Accepts(c, id) /\ sessions_lock = None
    /\ sessions[id] = None
    /\ Cardinality({i \in SessionIds : sessions[i] # None}) >= MAX_SESSIONS
    /\ sid' = [sid EXCEPT ![c] = id]
    /\ lines' = Write(lines, closed, c, "ERROR max sessions reached")
    /\ sessions_lock' = c
    /\ pc' = [pc EXCEPT ![c] = "s_err_drain"]
    /\ UNCHANGED <<MAX_SESSIONS, sessions, client, paired_event, clientOf, session,
                   closed, peerEof, sent, rd, data, pipe, pipeTo, supersededBy,
                   oldLegs, closedAtReg, pairedSent, pairedAtSup>>

\* lines 78-79 and 148-149: the drain of the ERROR line returns; close, leave the lock
ErrorDrained(c) ==
    /\ pc[c] \in {"s_err_drain", "c_err_drain"}
    /\ sessions_lock' = None
    /\ closed' = CloseAll(closed, {c})
    /\ pc' = [pc EXCEPT ![c] = "done"]
    /\ UNCHANGED <<MAX_SESSIONS, sessions, sid, client, paired_event, clientOf, session,
                   peerEof, sent, rd, lines, data, pipe, pipeTo, supersededBy,
                   oldLegs, closedAtReg, pairedSent, pairedAtSup>>

\* line 92: the drain of REGISTERED returns; the handler goes to wait on its event
ServerRegisteredDrained(c) ==
    /\ pc[c] = "s_reg_drain"
    /\ pc' = [pc EXCEPT ![c] = "s_wait"]
    /\ UNCHANGED <<MAX_SESSIONS, sessions, sessions_lock, sid, client, paired_event,
                   clientOf, session, closed, peerEof, sent, rd, lines, data, pipe,
                   pipeTo, supersededBy, oldLegs, closedAtReg, pairedSent, pairedAtSup>>

\* lines 108-114: the record of the id is missing or not this handler's
Superseded(c) == sessions[sid[c]] = None \/ sessions[sid[c]] # c

\* lines 100-122: my_event is set; the check under the lock, then PAIRED
ServerWake(c) ==
    /\ pc[c] = "s_wait" /\ paired_event[c] /\ sessions_lock = None
    /\ IF Superseded(c)
         THEN /\ closed' = CloseAll(closed, {c})
              /\ pc' = [pc EXCEPT ![c] = "done"]
              /\ UNCHANGED <<sessions, clientOf, lines, pairedSent>>
         ELSE IF client[c] = None
         THEN /\ sessions' = [sessions EXCEPT ![sid[c]] = None]
              /\ closed' = CloseAll(closed, {c})
              /\ pc' = [pc EXCEPT ![c] = "done"]
              /\ UNCHANGED <<clientOf, lines, pairedSent>>
         ELSE /\ clientOf' = [clientOf EXCEPT ![c] = client[c]]
              /\ lines' = Write(lines, closed, c, "PAIRED")
              /\ pairedSent' = [pairedSent EXCEPT ![c] = TRUE]
              /\ pc' = [pc EXCEPT ![c] = "s_paired_drain"]
              /\ UNCHANGED <<sessions, closed>>
    /\ UNCHANGED <<MAX_SESSIONS, sessions_lock, sid, client, paired_event, session,
                   peerEof, sent, rd, data, pipe, pipeTo, supersededBy, oldLegs,
                   closedAtReg, pairedAtSup>>

\* lines 127-131: asyncio.gather starts the two pipe() tasks
StartPipes(p, pt, c) ==
    /\ pipe' = [p EXCEPT ![c] = "read", ![clientOf[c]] = "read"]
    /\ pipeTo' = [pt EXCEPT ![c] = clientOf[c], ![clientOf[c]] = c]

\* line 123: the drain of PAIRED returns; the byte copy starts
ServerPairedDrained(c) ==
    /\ pc[c] = "s_paired_drain"
    /\ StartPipes(pipe, pipeTo, c)
    /\ pc' = [pc EXCEPT ![c] = "s_pipe"]
    /\ UNCHANGED <<MAX_SESSIONS, sessions, sessions_lock, sid, client, paired_event,
                   clientOf, session, closed, peerEof, sent, rd, lines, data,
                   supersededBy, oldLegs, closedAtReg, pairedSent, pairedAtSup>>

\* pipe line 34: reader.read(4096)
READ_SIZE == 4096

\* mutant: the chunk is written twice
CopyTwice(d, w, n, k) ==
    IF closed[w] THEN d
    ELSE [d EXCEPT ![w] = @ \o [i \in 1..k |-> n + i] \o [i \in 1..k |-> n + i]]

\* pipe line 37: the chunk read from r (bytes n+1..n+k of its stream) is written to w
Copy(d, w, n, k) ==
    IF closed[w] THEN d ELSE [d EXCEPT ![w] = @ \o [i \in 1..k |-> n + i]]

\* pipe lines 34-38: reader.read returns a chunk, which is written at once;
\* a drain that starts on a closing transport is going to raise
PipeRead(r) ==
    /\ pipe[r] = "read" /\ rd[r] < sent[r]
    /\ LET k == Min(READ_SIZE, sent[r] - rd[r])
       IN /\ data' = Copy(data, pipeTo[r], rd[r], k)
          /\ rd' = [rd EXCEPT ![r] = @ + k]
    /\ pipe' = [pipe EXCEPT ![r] = IF closed[pipeTo[r]] THEN "drain_err" ELSE "drain"]
    /\ UNCHANGED <<MAX_SESSIONS, sessions, sessions_lock, pc, sid, client, paired_event,
                   clientOf, session, closed, peerEof, sent, lines, pipeTo,
                   supersededBy, oldLegs, closedAtReg, pairedSent, pairedAtSup>>

\* mutant: at end of stream the pipe returns and leaves its writer open
PipeEofLeavesOpen(r) ==
    /\ pipe[r] = "read" /\ rd[r] = sent[r] /\ Eof(r)
    /\ pipe' = [pipe EXCEPT ![r] = "done"]
    /\ UNCHANGED <<MAX_SESSIONS, sessions, sessions_lock, pc, sid, client, paired_event,
                   clientOf, session, closed, peerEof, sent, rd, lines, data, pipeTo,
                   supersededBy, oldLegs, closedAtReg, pairedSent, pairedAtSup>>

\* pipe lines 35-36, 43-45: end of stream; the writer is closed in the finally
PipeEof(r) ==
    /\ pipe[r] = "read" /\ rd[r] = sent[r] /\ Eof(r)
    /\ pipe' = [pipe EXCEPT ![r] = "done"]
    /\ closed' = CloseAll(closed, {pipeTo[r]})
    /\ UNCHANGED <<MAX_SESSIONS, sessions, sessions_lock, pc, sid, client, paired_event,
                   clientOf, session, peerEof, sent, rd, lines, data, pipeTo,
                   supersededBy, oldLegs, closedAtReg, pairedSent, pairedAtSup>>

\* pipe line 38: the drain returns and the loop goes on
PipeDrained(r) ==
    /\ pipe[r] = "drain"
    /\ pipe' = [pipe EXCEPT ![r] = "read"]
    /\ UNCHANGED <<MAX_SESSIONS, sessions, sessions_lock, pc, sid, client, paired_event,
                   clientOf, session, closed, peerEof, sent, rd, lines, data, pipeTo,
                   supersededBy, oldLegs, closedAtReg, pairedSent, pairedAtSup>>

\* pipe lines 38-45: the drain on a closed transport raises ConnectionResetError
PipeDrainFails(r) ==
    /\ pipe[r] = "drain_err"
    /\ pipe' = [pipe EXCEPT ![r] = "done"]
    /\ UNCHANGED <<MAX_SESSIONS, sessions, sessions_lock, pc, sid, client, paired_event,
                   clientOf, session, closed, peerEof, sent, rd, lines, data, pipeTo,
                   supersededBy, oldLegs, closedAtReg, pairedSent, pairedAtSup>>

\* lines 132-138: both pipes returned; the finally pops the id and closes both legs
ServerFinish(c) ==
    /\ pc[c] = "s_pipe" /\ sessions_lock = None
    /\ pipe[c] = "done" /\ pipe[clientOf[c]] = "done"
    /\ sessions' = [sessions EXCEPT ![sid[c]] = None]
    /\ closed' = CloseAll(closed, {c, clientOf[c]})
    /\ pc' = [pc EXCEPT ![c] = "done"]
    /\ UNCHANGED <<MAX_SESSIONS, sessions_lock, sid, client, paired_event, clientOf,
                   session, peerEof, sent, rd, lines, data, pipe, pipeTo,
                   supersededBy, oldLegs, closedAtReg, pairedSent, pairedAtSup>>

\* mutant: the client leg is installed and signalled, CONNECTED is not written
ClientAttachSignalsEarly(c, id) ==
    /\ Accepts(c, id) /\ sessions_lock = None
    /\ sessions[id] # None
    /\ sid' = [sid EXCEPT ![c] = id]
    /\ session' = [session EXCEPT ![c] = sessions[id]]
    /\ client' = [client EXCEPT ![sessions[id]] = c]
    /\ paired_event' = [paired_event EXCEPT ![sessions[id]] = TRUE]
    /\ pc' = [pc EXCEPT ![c] = "c_conn_drain"]
    /\ UNCHANGED <<MAX_SESSIONS, sessions, sessions_lock, lines, clientOf,
                   closed, peerEof, sent, rd, data, pipe, pipeTo, supersededBy,
                   oldLegs, closedAtReg, pairedSent, pairedAtSup>>

\* handle_client_role lines 143-155: the record exists; attach, write CONNECTED
ClientAttach(c, id) ==
    /\ Accepts(c, id) /\ sessions_lock = None
    /\ sessions[id] # None
    /\ sid' = [sid EXCEPT ![c] = id]
    /\ session' = [session EXCEPT ![c] = sessions[id]]
    /\ client' = [client EXCEPT ![sessions[id]] = c]
    /\ lines' = Write(lines, closed, c, "CONNECTED")
    /\ pc' = [pc EXCEPT ![c] = "c_conn_drain"]
    /\ UNCHANGED <<MAX_SESSIONS, sessions, sessions_lock, paired_event, clientOf,
                   closed, peerEof, sent, rd, data, pipe, pipeTo, supersededBy,
                   oldLegs, closedAtReg, pairedSent, pairedAtSup>>

\* mutant: the unknown id gets a record all the same
ClientUnknownInstalls(c, id) ==
    /\ Accepts(c, id) /\ sessions_lock = None
    /\ sessions[id] = None
    /\ sid' = [sid EXCEPT ![c] = id]
    /\ sessions' = [sessions EXCEPT ![id] = c]
    /\ lines' = Write(lines, closed, c, "ERROR unknown session")
    /\ sessions_lock' = c
    /\ pc' = [pc EXCEPT ![c] = "c_err_drain"]
    /\ UNCHANGED <<MAX_SESSIONS, client, paired_event, clientOf, session,
                   closed, peerEof, sent, rd, data, pipe, pipeTo, supersededBy,
                   oldLegs, closedAtReg, pairedSent, pairedAtSup>>

\* handle_client_role lines 145-147: ERROR unknown session, drain under the lock
ClientUnknown(c, id) ==
    /\ Accepts(c, id) /\ sessions_lock = None
    /\ sessions[id] = None
    /\ sid' = [sid EXCEPT ![c] = id]
    /\ lines' = Write(lines, closed, c, "ERROR unknown session")
    /\ sessions_lock' = c
    /\ pc' = [pc EXCEPT ![c] = "c_err_drain"]
    /\ UNCHANGED <<MAX_SESSIONS, sessions, client, paired_event, clientOf, session,
                   closed, peerEof, sent, rd, data, pipe, pipeTo, supersededBy,
                   oldLegs, closedAtReg, pairedSent, pairedAtSup>>

\* handle_client_role lines 155-164: the drain of CONNECTED returns; set the event, sleep
ClientSignal(c) ==
    /\ pc[c] = "c_conn_drain"
    /\ paired_event' = [paired_event EXCEPT ![session[c]] = TRUE]
    /\ pc' = [pc EXCEPT ![c] = "c_sleep"]
    /\ UNCHANGED <<MAX_SESSIONS, sessions, sessions_lock, sid, client, clientOf,
                   session, closed, peerEof, sent, rd, lines, data, pipe, pipeTo,
                   supersededBy, oldLegs, closedAtReg, pairedSent, pairedAtSup>>

RECURSIVE SumTo(_, _)
SumTo(f, n) == IF n = 0 THEN 0 ELSE f[n] + SumTo(f, n - 1)

TotalSent == SumTo(sent, NConn)

\* the peer of connection c sends one more byte (it arrives in c's StreamReader)
PeerSend(c) ==
    /\ pc[c] # "new" /\ ~closed[c] /\ ~peerEof[c]
    /\ TotalSent < MaxBytes
    /\ sent' = [sent EXCEPT ![c] = @ + 1]
    /\ UNCHANGED <<MAX_SESSIONS, sessions, sessions_lock, pc, sid, client, paired_event,
                   clientOf, session, closed, peerEof, rd, lines, data, pipe, pipeTo,
                   supersededBy, oldLegs, closedAtReg, pairedSent, pairedAtSup>>

\* the peer of connection c shuts its side down: c's StreamReader gets feed_eof.
\* Only pipe() reads a connection to its end, so an earlier shutdown shows when
\* the pipe task reads: the step is taken then
PeerClose(c) ==
    /\ pipe[c] = "read" /\ ~peerEof[c]
    /\ peerEof' = [peerEof EXCEPT ![c] = TRUE]
    /\ UNCHANGED <<MAX_SESSIONS, sessions, sessions_lock, pc, sid, client, paired_event,
                   clientOf, session, closed, sent, rd, lines, data, pipe, pipeTo,
                   supersededBy, oldLegs, closedAtReg, pairedSent, pairedAtSup>>

\* the ERROR lines of handle_connection
ProtocolErrors == {"ERROR invalid protocol", "ERROR invalid role"}

\* handle_connection lines 176-183, 191-194: the first line is not
\* `SESSION <id> server|client`; the ERROR line is written and drained, and
\* the connection closed. No lock is held and nothing but this connection is
\* touched, so the drain is not a separate step
InvalidFirstLine(c, err) ==
    /\ pc[c] = "new"
    /\ \A d \in Conn : d < c => pc[d] # "new"
    /\ lines' = Write(lines, closed, c, err)
    /\ closed' = CloseAll(closed, {c})
    /\ pc' = [pc EXCEPT ![c] = "p_closed"]
    /\ UNCHANGED <<MAX_SESSIONS, sessions, sessions_lock, sid, client, paired_event,
                   clientOf, session, peerEof, sent, rd, data, pipe, pipeTo,
                   supersededBy, oldLegs, closedAtReg, pairedSent, pairedAtSup>>

\* lines 176, 199-202: the first line is not UTF-8; line.decode() raises and
\* the handler closes the connection
UndecodableFirstLine(c) ==
    /\ pc[c] = "new"
    /\ \A d \in Conn : d < c => pc[d] # "new"
    /\ closed' = CloseAll(closed, {c})
    /\ pc' = [pc EXCEPT ![c] = "x_closed"]
    /\ UNCHANGED <<MAX_SESSIONS, sessions, sessions_lock, sid, client, paired_event,
                   clientOf, session, peerEof, sent, rd, lines, data, pipe, pipeTo,
                   supersededBy, oldLegs, closedAtReg, pairedSent, pairedAtSup>>

NextRelay ==
    \/ \E c \in Conn, id \in SessionIds : ServerRegisterNew(c, id) /\ UNCHANGED notRelay
    \/ \E c \in Conn, id \in SessionIds : ServerSupersede(c, id) /\ UNCHANGED notRelay
    \/ \E c \in Conn, id \in SessionIds : ServerRejectMax(c, id) /\ UNCHANGED notRelay
    \/ \E c \in Conn : ErrorDrained(c) /\ UNCHANGED notRelay
    \/ \E c \in Conn : ServerRegisteredDrained(c) /\ UNCHANGED notRelay
    \/ \E c \in Conn : ServerWake(c) /\ UNCHANGED notRelay
    \/ \E c \in Conn : ServerPairedDrained(c) /\ UNCHANGED notRelay
    \/ \E c \in Conn : PipeRead(c) /\ UNCHANGED notRelay
    \/ \E c \in Conn : PipeEof(c) /\ UNCHANGED notRelay
    \/ \E c \in Conn : PipeDrained(c) /\ UNCHANGED notRelay
    \/ \E c \in Conn : PipeDrainFails(c) /\ UNCHANGED notRelay
    \/ \E c \in Conn : ServerFinish(c) /\ UNCHANGED notRelay
    \/ \E c \in Conn, id \in SessionIds : ClientAttach(c, id) /\ UNCHANGED notRelay
    \/ \E c \in Conn, id \in SessionIds : ClientUnknown(c, id) /\ UNCHANGED notRelay
    \/ \E c \in Conn : ClientSignal(c) /\ UNCHANGED notRelay
    \/ \E c \in Conn : PeerSend(c) /\ UNCHANGED notRelay
    \/ \E c \in Conn : PeerClose(c) /\ UNCHANGED notRelay
    \/ \E c \in Conn, err \in ProtocolErrors : InvalidFirstLine(c, err) /\ UNCHANGED notRelay
    \/ \E c \in Conn : UndecodableFirstLine(c) /\ UNCHANGED notRelay

\* ------------------------------------------------------- session manager
NoEntry == [process |-> None, expiry_task |-> None]

InitSM ==
    /\ keepalive \in {1, MaxKeepalive}
    /\ now = 0
    /\ sm_sessions = [n \in EngineNames |-> NoEntry]
    /\ bpc = [b \in Bridge |-> "idle"]
    /\ bname = [b \in Bridge |-> None]
    /\ engine_process = [b \in Bridge |-> None]
    /\ reattached = [b \in Bridge |-> FALSE]
    /\ procState = [p \in Proc |-> "none"]
    /\ task = [t \in Task |-> "none"]
    /\ deadline = [t \in Task |-> 0]
    /\ lookupProc = [b \in Bridge |-> None]
    /\ lookupAlive = [b \in Bridge |-> FALSE]
    /\ releasedAt = [n \in EngineNames |-> -1]

\* proc.returncode is None
ReturncodeNone(p) == procState[p] \in {"alive", "terminating"}

\* get_or_create lines 1118-1120: session["expiry_task"].cancel()
CancelExpiry(tk, t) ==
    IF t # None /\ tk[t] = "sleeping" THEN [tk EXCEPT ![t] = "cancelled"] ELSE tk

\* mutant: the warm process is handed out without looking at its returncode
StillAliveUnchecked(p) == TRUE

\* get_or_create line 1122: if proc.returncode is None
StillAlive(p) == ReturncodeNone(p)

\* client_handler lines 1313-1318 with get_or_create lines 1115-1126: the
\* bridge (past trust gate and auth) looks the name up under the lock.
\* Bridges are numbered in the order they get here, engine names in the
\* order of their first use.
GetOrCreateLookup(b, n) ==
    /\ bpc[b] = "idle"
    /\ \A d \in Bridge : d < b => bpc[d] # "idle"
    /\ \A j \in EngineNames : j < n => \E d \in Bridge : bname[d] = j
    /\ bname' = [bname EXCEPT ![b] = n]
    /\ LET s == sm_sessions[n]
       IN IF s.process # None
            THEN /\ task' = CancelExpiry(task, s.expiry_task)
                 /\ lookupProc' = [lookupProc EXCEPT ![b] = s.process]
                 /\ lookupAlive' = [lookupAlive EXCEPT ![b] = ReturncodeNone(s.process)]
                 /\ releasedAt' = [releasedAt EXCEPT ![n] = -1]
                 /\ IF StillAlive(s.process)
                      THEN /\ sm_sessions' = [sm_sessions EXCEPT ![n].expiry_task = None]
                           /\ engine_process' = [engine_process EXCEPT ![b] = s.process]
                           /\ reattached' = [reattached EXCEPT ![b] = TRUE]
                           /\ bpc' = [bpc EXCEPT ![b] = "holding"]
                      ELSE /\ sm_sessions' = [sm_sessions EXCEPT ![n] = NoEntry]
                           /\ bpc' = [bpc EXCEPT ![b] = "spawning"]
                           /\ UNCHANGED <<engine_process, reattached>>
            ELSE /\ bpc' = [bpc EXCEPT ![b] = "spawning"]
                 /\ UNCHANGED <<sm_sessions, engine_process, reattached, task,
                                lookupProc, lookupAlive, releasedAt>>
    /\ UNCHANGED <<keepalive, now, procState, deadline>>

\* get_or_create lines 1130-1143: create_subprocess_exec returns; the entry is installed
GetOrCreateSpawned(b) ==
    /\ bpc[b] = "spawning"
    /\ procState' = [procState EXCEPT ![b] = "alive"]
    /\ sm_sessions' = [sm_sessions EXCEPT ![bname[b]] = [process |-> b, expiry_task |-> None]]
    /\ engine_process' = [engine_process EXCEPT ![b] = b]
    /\ reattached' = [reattached EXCEPT ![b] = FALSE]
    /\ releasedAt' = [releasedAt EXCEPT ![bname[b]] = -1]
    /\ bpc' = [bpc EXCEPT ![b] = "holding"]
    /\ UNCHANGED <<keepalive, now, bname, task, deadline, lookupProc, lookupAlive>>

\* get_or_create line 1130 raises (the binary cannot be run); client_handler
\* lines 1483-1489 log it, engine_process is None, nothing is released
GetOrCreateSpawnFails(b) ==
    /\ bpc[b] = "spawning"
    /\ bpc' = [bpc EXCEPT ![b] = "closed"]
    /\ UNCHANGED <<keepalive, now, sm_sessions, bname, engine_process, reattached,
                   procState, task, deadline, lookupProc, lookupAlive, releasedAt>>

\* client_handler lines 1485-1492 with release lines 1145-1161 (keepalive > 0):
\* the bridge unwinds and an expiry task is scheduled for the name
Release(b) ==
    /\ bpc[b] = "holding"
    /\ bpc' = [bpc EXCEPT ![b] = "closed"]
    /\ LET n == bname[b]
       IN IF sm_sessions[n].process = None
            THEN UNCHANGED <<sm_sessions, task, deadline, releasedAt>>
            ELSE /\ sm_sessions' = [sm_sessions EXCEPT ![n].expiry_task = b]
                 /\ task' = [task EXCEPT ![b] = "sleeping"]
                 /\ deadline' = [deadline EXCEPT ![b] = now + keepalive]
                 /\ releasedAt' = [releasedAt EXCEPT ![n] = now]
    /\ UNCHANGED <<keepalive, now, bname, engine_process, reattached, procState,
                   lookupProc, lookupAlive>>

\* _terminate lines 1171-1177: the entry is popped; a live process is sent quit and terminate()
Terminate(ps, n) ==
    LET p == sm_sessions[n].process
    IN IF p # None /\ ReturncodeNone(p) THEN [ps EXCEPT ![p] = "terminating"] ELSE ps

\* _expire_session lines 1165-1167 with _terminate: the sleep is over
ExpiryFires(t) ==
    /\ task[t] = "sleeping" /\ now >= deadline[t]
    /\ LET n == bname[t]
           p == sm_sessions[n].process
       IN /\ sm_sessions' = [sm_sessions EXCEPT ![n] = NoEntry]
          /\ procState' = Terminate(procState, n)
          /\ task' = [task EXCEPT ![t] =
                        IF p # None /\ ReturncodeNone(p) THEN "waiting" ELSE "done"]
          /\ releasedAt' = [releasedAt EXCEPT ![n] =
                              IF @ # -1 /\ now >= @ + keepalive THEN -1 ELSE @]
    /\ UNCHANGED <<keepalive, now, bpc, bname, engine_process, reattached, deadline,
                   lookupProc, lookupAlive>>

\* the signalled process exits and is reaped: returncode is set
ProcReaped(p) ==
    /\ procState[p] = "terminating"
    /\ procState' = [procState EXCEPT ![p] = "terminated"]
    /\ UNCHANGED <<keepalive, now, sm_sessions, bpc, bname, engine_process, reattached,
                   task, deadline, lookupProc, lookupAlive, releasedAt>>

\* _terminate line 1178: await process.wait() returns; the expiry task ends
ExpiryDone(t) ==
    /\ task[t] = "waiting"
    /\ \A p \in Proc : procState[p] # "terminating"
    /\ task' = [task EXCEPT ![t] = "done"]
    /\ UNCHANGED <<keepalive, now, sm_sessions, bpc, bname, engine_process, reattached,
                   procState, deadline, lookupProc, lookupAlive, releasedAt>>

\* an engine process exits on its own (a crash, or the client sent quit)
ProcExits(p) ==
    /\ procState[p] = "alive"
    /\ procState' = [procState EXCEPT ![p] = "exited"]
    /\ UNCHANGED <<keepalive, now, sm_sessions, bpc, bname, engine_process, reattached,
                   task, deadline, lookupProc, lookupAlive, releasedAt>>

\* time passes (asyncio.sleep may return later than asked, never earlier)
Tick ==
    /\ now < MaxTime
    /\ now' = now + 1
    /\ UNCHANGED <<keepalive, sm_sessions, bpc, bname, engine_process, reattached,
                   procState, task, deadline, lookupProc, lookupAlive, releasedAt>>

NextSM ==
    \/ \E b \in 1..MaxArrivals, n \in EngineNames : GetOrCreateLookup(b, n) /\ UNCHANGED notSM
    \/ \E b \in Bridge : GetOrCreateSpawned(b) /\ UNCHANGED notSM
    \/ \E b \in Bridge : GetOrCreateSpawnFails(b) /\ UNCHANGED notSM
    \/ \E b \in Bridge : Release(b) /\ UNCHANGED notSM
    \/ \E t \in Task : ExpiryFires(t) /\ UNCHANGED notSM
    \/ \E p \in Proc : ProcReaped(p) /\ UNCHANGED notSM
    \/ \E t \in Task : ExpiryDone(t) /\ UNCHANGED notSM
    \/ \E p \in Proc : ProcExits(p) /\ UNCHANGED notSM
    \/ Tick /\ UNCHANGED notSM

\* ------------------------------------------- trust gate and rate filter
Last(s) == s[Len(s)]

\* the /24 network of an address
Subnet24(ip) == (ip + 2) \div 3

Subnets == {Subnet24(ip) : ip \in IPs}

\* the lines a client may send in answer to the greeting
ClientMsgs == {[cmd |-> "AUTH", arg |-> "tok"], [cmd |-> "AUTH", arg |-> "bad"]}

NoMsg == [cmd |-> "none", arg |-> ""]

\* b"" from readline, or asyncio.TimeoutError
Silence == [cmd |-> "silence", arg |-> ""]

\* the peer is turned away when it is not trusted: the only case that uses the ledger
LedgerInUse(c) == c.enable_trusted_sources /\ ~c.enable_auto_trust

\* the configurations tried: trust filtering off, on with auto-trust, on without;
\* the ledger switches matter only in the last case
Configs ==
    {c \in [enable_trusted_sources : BOOLEAN, enable_auto_trust : BOOLEAN,
            trusted_sources : {{1}}, trusted_subnets : {{}},
            auth_method : {"none", "token"}, auth_token : {"", "tok"}, psk_key : {""},
            max_connection_attempts : {MaxAttempts},
            max_connection_attempts_from_untrusted_subnet : {MaxSubnetAttempts},
            connection_attempt_period : {Period},
            enable_firewall_ip_blocking : BOOLEAN,
            enable_subnet_connection_attempt_blocking : BOOLEAN] :
        /\ c.enable_auto_trust => c.enable_trusted_sources
        /\ (c.auth_method = "none") => (c.auth_token = "tok")
        /\ (c.enable_firewall_ip_blocking \/ c.enable_subnet_connection_attempt_blocking)
              => LedgerInUse(c)
        /\ LedgerInUse(c) => (c.auth_method = "token" /\ c.auth_token = "tok")}

InitGate ==
    /\ config \in Configs
    /\ firewall \in {"noop", "windows"}
    /\ (firewall = "windows") =>
          (config.enable_firewall_ip_blocking \/ config.enable_subnet_connection_attempt_blocking)
    /\ connection_attempts = [ip \in IPs |-> <<>>]
    /\ subnet_connection_attempts = [sn \in Subnets |-> <<>>]
    /\ auto_trusted_ips = {}
    /\ gpc = [g \in Peer |-> "new"]
    /\ client_ip = [g \in Peer |-> None]
    /\ glines = [g \in Peer |-> <<>>]
    /\ reply = [g \in Peer |-> NoMsg]
    /\ acquired = [g \in Peer |-> FALSE]
    /\ recorded = [g \in Peer |-> 0]
    /\ entryAtOpen = [g \in Peer |-> 0]
    /\ entryAtClose = [g \in Peer |-> 0]
    /\ appends = [ip \in IPs |-> 0]
    /\ block_ip_calls = [ip \in IPs |-> 0]
    /\ clears = [ip \in IPs |-> 0]

\* mutant: every address counts as trusted
is_trusted_all(ip) == TRUE

is_trusted(ip) ==
    \/ ip \in config.trusted_sources
    \/ ip \in auto_trusted_ips
    \/ \E sn \in config.trusted_subnets : Subnet24(ip) = sn

has_auth ==
    config.auth_method # "none" /\ (config.auth_token # "" \/ config.psk_key # "")

methods ==
    (IF config.auth_token # "" THEN <<"token">> ELSE <<>>)
        \o (IF config.psk_key # "" THEN <<"psk">> ELSE <<>>)

\* mutant: the greeting never names the methods
GreetingBare == "AUTH_REQUIRED"

Greeting ==
    IF methods = <<"token">> THEN "AUTH_REQUIRED"
    ELSE IF methods = <<"psk">> THEN "AUTH_REQUIRED psk"
    ELSE "AUTH_REQUIRED token,psk"

\* mutant: the method word alone decides
CredentialOkByPrefix(msg) ==
    \/ msg.cmd = "AUTH" /\ config.auth_token # ""
    \/ msg.cmd = "PSK_AUTH" /\ config.psk_key # ""

\* client_msg.startswith(prefix) and secret and client_msg[len(prefix):] == secret
CredentialOk(msg) ==
    \/ msg.cmd = "AUTH" /\ config.auth_token # "" /\ msg.arg = config.auth_token
    \/ msg.cmd = "PSK_AUTH" /\ config.psk_key # "" /\ msg.arg = config.psk_key

\* connections are numbered in the order their handlers start
Arrives(g) == gpc[g] = "new" /\ \A d \in Peer : d < g => gpc[d] # "new"

\* the firewall call suspends the caller only when it shells out
Suspends == firewall = "windows"

\* del connection_attempts[ip] for every ip whose last attempt is older than period
Prune(ca, t) ==
    [ip \in IPs |-> IF ca[ip] # <<>> /\ t - Last(ca[ip]) > config.connection_attempt_period
                    THEN <<>> ELSE ca[ip]]

\* check_connection_attempts from the subnet tracking on, then writer.close()
SubnetTrack(g, ip) ==
    LET sn == Subnet24(ip)
        sca == [subnet_connection_attempts EXCEPT ![sn] = Append(@, now)]
        over == Len(sca[sn]) > config.max_connection_attempts_from_untrusted_subnet
        wait == over /\ config.enable_subnet_connection_attempt_blocking /\ Suspends
    IN /\ subnet_connection_attempts' =
              IF over /\ ~wait THEN [sca EXCEPT ![sn] = <<>>] ELSE sca
       /\ gpc' = [gpc EXCEPT ![g] = IF wait THEN "block_subnet" ELSE "closed"]
       /\ entryAtClose' = [entryAtClose EXCEPT ![g] =
              IF wait THEN @ ELSE Len(connection_attempts'[ip])]

\* client_handler rejects an untrusted peer: check_connection_attempts up to
\* its first suspension (or to its end), then writer.close()
Reject(g, ip) ==
    /\ Arrives(g)
    /\ config.enable_trusted_sources
    /\ ~is_trusted(ip)
    /\ ~config.enable_auto_trust
    /\ client_ip' = [client_ip EXCEPT ![g] = ip]
    /\ entryAtOpen' = [entryAtOpen EXCEPT ![g] = Len(connection_attempts[ip])]
    /\ recorded' = [recorded EXCEPT ![g] = @ + 1]
    /\ appends' = [appends EXCEPT ![ip] = @ + 1]
    /\ LET ca == [Prune(connection_attempts, now) EXCEPT ![ip] = Append(@, now)]
           over == Len(ca[ip]) > config.max_connection_attempts
           block == over /\ config.enable_firewall_ip_blocking
       IN /\ block_ip_calls' = [block_ip_calls EXCEPT ![ip] = IF block THEN @ + 1 ELSE @]
          /\ IF block /\ Suspends
             THEN /\ connection_attempts' = ca
                  /\ gpc' = [gpc EXCEPT ![g] = "block_ip"]
                  /\ UNCHANGED <<subnet_connection_attempts, clears, entryAtClose>>
             ELSE /\ connection_attempts' = IF over THEN [ca EXCEPT ![ip] = <<>>] ELSE ca
                  /\ clears' = [clears EXCEPT ![ip] = IF over THEN @ + 1 ELSE @]
                  /\ SubnetTrack(g, ip)
    /\ UNCHANGED <<config, firewall, auto_trusted_ips, glines, reply, acquired>>

\* firewall.block_ip has returned: the address's entry is dropped
BlockIpReturns(g) ==
    /\ gpc[g] = "block_ip"
    /\ connection_attempts' = [connection_attempts EXCEPT ![client_ip[g]] = <<>>]
    /\ clears' = [clears EXCEPT ![client_ip[g]] = @ + 1]
    /\ SubnetTrack(g, client_ip[g])
    /\ UNCHANGED <<config, firewall, auto_trusted_ips, client_ip, glines, reply, acquired,
                   recorded, entryAtOpen, appends, block_ip_calls>>

\* firewall.block_subnet has returned: the subnet's entry is dropped
BlockSubnetReturns(g) ==
    /\ gpc[g] = "block_subnet"
    /\ subnet_connection_attempts' =
          [subnet_connection_attempts EXCEPT ![Subnet24(client_ip[g])] = <<>>]
    /\ gpc' = [gpc EXCEPT ![g] = "closed"]
    /\ entryAtClose' = [entryAtClose EXCEPT ![g] = Len(connection_attempts[client_ip[g]])]
    /\ UNCHANGED <<config, firewall, auto_trusted_ips, client_ip, glines, reply, acquired,
                   recorded, entryAtOpen, appends, block_ip_calls, clears,
                   connection_attempts>>

\* client_handler lets the peer through the trust gate; without credentials
\* configured it goes on to the engine at once
Admit(g, ip) ==
    /\ Arrives(g)
    /\ ~(config.enable_trusted_sources /\ ~is_trusted(ip) /\ ~config.enable_auto_trust)
    /\ client_ip' = [client_ip EXCEPT ![g] = ip]
    /\ auto_trusted_ips' =
          IF config.enable_trusted_sources /\ ~is_trusted(ip)
          THEN auto_trusted_ips \cup {ip} ELSE auto_trusted_ips
    /\ IF has_auth
       THEN /\ glines' = [glines EXCEPT ![g] = Append(@, Greeting)]
            /\ gpc' = [gpc EXCEPT ![g] = "auth_wait"]
            /\ UNCHANGED acquired
       ELSE /\ gpc' = [gpc EXCEPT ![g] = "engine"]
            /\ acquired' = [acquired EXCEPT ![g] = TRUE]
            /\ UNCHANGED glines
    /\ UNCHANGED <<config, firewall, reply, recorded, entryAtOpen, entryAtClose,
                   connection_attempts, subnet_connection_attempts, appends,
                   block_ip_calls, clears>>

\* authenticate_client_multi: the client's line has arrived
AuthLine(g, msg) ==
    /\ gpc[g] = "auth_wait"
    /\ reply' = [reply EXCEPT ![g] = msg]
    /\ IF CredentialOk(msg)
       THEN /\ glines' = [glines EXCEPT ![g] = Append(@, "AUTH_OK")]
            /\ gpc' = [gpc EXCEPT ![g] = "auth_ok_drain"]
       ELSE /\ glines' = [glines EXCEPT ![g] = Append(@, "AUTH_FAIL")]
            /\ gpc' = [gpc EXCEPT ![g] = "auth_fail_drain"]
    /\ UNCHANGED <<config, firewall, auto_trusted_ips, client_ip, acquired, recorded,
                   entryAtOpen, entryAtClose, connection_attempts,
                   subnet_connection_attempts, appends, block_ip_calls, clears>>

\* authenticate_client_multi: end of stream, or nothing within the timeout;
\* both return False with nothing written
AuthNoLine(g) ==
    /\ gpc[g] = "auth_wait"
    /\ reply' = [reply EXCEPT ![g] = Silence]
    /\ gpc' = [gpc EXCEPT ![g] = "closed"]
    /\ UNCHANGED <<config, firewall, auto_trusted_ips, client_ip, glines, acquired,
                   recorded, entryAtOpen, entryAtClose, connection_attempts,
                   subnet_connection_attempts, appends, block_ip_calls, clears>>

\* AUTH_OK is flushed: client_handler goes on to the semaphore and the engine
AuthOkDrained(g) ==
    /\ gpc[g] = "auth_ok_drain"
    /\ gpc' = [gpc EXCEPT ![g] = "engine"]
    /\ acquired' = [acquired EXCEPT ![g] = TRUE]
    /\ UNCHANGED <<config, firewall, auto_trusted_ips, client_ip, glines, reply,
                   recorded, entryAtOpen, entryAtClose, connection_attempts,
                   subnet_connection_attempts, appends, block_ip_calls, clears>>

\* the drain of a verdict ends, by a flush of AUTH_FAIL or by a connection
\* error, and the handshake returns False: client_handler closes the writer
AuthFailed(g) ==
    /\ gpc[g] \in {"auth_ok_drain", "auth_fail_drain"}
    /\ gpc' = [gpc EXCEPT ![g] = "closed"]
    /\ UNCHANGED <<config, firewall, auto_trusted_ips, client_ip, glines, reply, acquired,
                   recorded, entryAtOpen, entryAtClose, connection_attempts,
                   subnet_connection_attempts, appends, block_ip_calls, clears>>

\* time.time() is read by check_connection_attempts alone
GateTick == Tick /\ LedgerInUse(config)

NextGate ==
    \/ \E g \in Peer, ip \in IPs : Reject(g, ip) /\ UNCHANGED notGate
    \/ \E g \in Peer : BlockIpReturns(g) /\ UNCHANGED notGate
    \/ \E g \in Peer : BlockSubnetReturns(g) /\ UNCHANGED notGate
    \/ \E g \in Peer, ip \in IPs : Admit(g, ip) /\ UNCHANGED notGate
    \/ \E g \in Peer, msg \in ClientMsgs : AuthLine(g, msg) /\ UNCHANGED notGate
    \/ \E g \in Peer : AuthNoLine(g) /\ UNCHANGED notGate
    \/ \E g \in Peer : AuthOkDrained(g) /\ UNCHANGED notGate
    \/ \E g \in Peer : AuthFailed(g) /\ UNCHANGED notGate
    \/ GateTick /\ UNCHANGED notSM

\* ------------------------------------------------ UCI option overrides
\* option names as they are written in a setoption line, word by word
OptNames == {<<"Hash">>, <<"Skill", "Level">>}

\* a dict from option names to values
Dicts(vals) == UNION {[d -> vals] : d \in SUBSET OptNames}

ClientLines ==
    {<<"setoption", "name", "Hash", "value", "128">>,
     <<"setoption", "name", "Skill", "Level", "value", "20">>,
     <<"setoption", "name", "Hash">>,
     <<"go", "depth", "20">>}

InitOpt ==
    /\ engine_customs \in Dicts({"override", "64"})
    /\ CUSTOM_VARIABLES \in Dicts({"override", "32"})
    /\ client_cmds = <<>>
    /\ engine_stdin = <<>>

\* the dict key that is the one word w
Key(w) == <<w>>

\* f"setoption name {opt_name} value {value}"
Setoption(opt_name, value) == <<"setoption", "name">> \o opt_name \o <<"value", value>>

\* process_client_commands lines 1412-1434: the command handed to process_command
Override(parts) ==
    IF Len(parts) >= 2 /\ parts[1] = "setoption" /\ parts[2] = "name"
    THEN IF Len(parts) >= 5 /\ parts[2] = "name" /\ parts[4] = "value"
         THEN LET opt_name == Key(parts[3])
              IN IF opt_name \in DOMAIN engine_customs
                 THEN IF engine_customs[opt_name] = "override"
                      THEN parts
                      ELSE Setoption(opt_name, engine_customs[opt_name])
                 ELSE IF opt_name \in DOMAIN CUSTOM_VARIABLES
                      THEN Setoption(opt_name, CUSTOM_VARIABLES[opt_name])
                      ELSE parts
         ELSE parts
    ELSE parts

\* one client line is read and its command written to the engine
ProcessClientCommand(line) ==
    /\ Len(client_cmds) < MaxCmds
    /\ client_cmds' = Append(client_cmds, line)
    /\ engine_stdin' = Append(engine_stdin, Override(line))
    /\ UNCHANGED <<engine_customs, CUSTOM_VARIABLES>>

NextOpt ==
    \/ \E line \in ClientLines : ProcessClientCommand(line) /\ UNCHANGED notOpt

\* ----------------------------------------------------- output throttler
\* self.last_depth = None, and the result of _extract_depth that found nothing
NoDepth == -1

\* engine output lines, as line.split() of the stripped line
EngineLines ==
    {<<"info", "depth", "1">>, <<"info", "depth", "1", "nodes">>,
     <<"info", "depth", "2">>, <<"info", "nodes", "depth">>, <<"bestmove", "e2e4">>}

\* OutputThrottler.__init__; the clock of a running system is far past the
\* largest interval
InitThr ==
    /\ throttle_ms \in {0, MaxThrottle}
    /\ last_send_time = 0
    /\ last_depth = NoDepth
    /\ pending_info = <<>>
    /\ clock_ms = MaxThrottle
    /\ out_log = <<>>

\* int(word), NoDepth standing for ValueError
IntOf(word) ==
    IF word = "1" THEN 1 ELSE IF word = "2" THEN 2 ELSE IF word = "3" THEN 3 ELSE NoDepth

\* _extract_depth: the first `depth` word followed by an integer
ExtractDepth(parts) ==
    LET hits == {i \in 1..(Len(parts) - 1) : parts[i] = "depth" /\ IntOf(parts[i + 1]) # NoDepth}
    IN IF hits = {} THEN NoDepth
       ELSE IntOf(parts[(CHOOSE i \in hits : \A j \in hits : i <= j) + 1])

\* line.startswith("info ")
IsInfo(parts) == Len(parts) >= 2 /\ parts[1] = "info"

\* mutant: the interval has to be exceeded, not reached
WindowOverStrict(t) == t - last_send_time > throttle_ms

\* now - self.last_send_time >= self.throttle_ms
WindowOver(t) == t - last_send_time >= throttle_ms

\* OutputThrottler.should_forward(line) at the current clock
ShouldForward(line) ==
    /\ Len(out_log) < MaxLines
    /\ LET depth == ExtractDepth(line)
           rule == IF throttle_ms <= 0 THEN 1
                   ELSE IF ~IsInfo(line) THEN 2
                   ELSE IF depth # NoDepth /\ depth # last_depth THEN 3
                   ELSE IF WindowOver(clock_ms) THEN 4
                   ELSE 5
       IN /\ last_depth' = IF rule = 3 THEN depth ELSE last_depth
          /\ last_send_time' = IF rule \in {3, 4} THEN clock_ms ELSE last_send_time
          /\ pending_info' = IF rule = 1 THEN pending_info
                             ELSE IF rule = 5 THEN line ELSE <<>>
          /\ out_log' = Append(out_log, [line |-> line, t |-> clock_ms, fwd |-> rule # 5])
    /\ UNCHANGED <<throttle_ms, clock_ms>>

\* time passes between two lines of the engine
ThrTick ==
    /\ clock_ms < MaxThrottle + MaxMs
    /\ clock_ms' = clock_ms + 1
    /\ UNCHANGED <<throttle_ms, last_send_time, last_depth, pending_info, out_log>>

NextThr ==
    \/ \E line \in EngineLines : ShouldForward(line) /\ UNCHANGED notThr
    \/ ThrTick /\ UNCHANGED notThr

\* --------------------------------------------------- the auth handshake
\* the lines a client may send in answer to the greeting, stripped
AuthMsgs ==
    ClientMsgs \cup {[cmd |-> "PSK_AUTH", arg |-> "psk"], [cmd |-> "PSK_AUTH", arg |-> "tok"],
                     [cmd |-> "AUTH", arg |-> "psk"], [cmd |-> "uci", arg |-> ""],
                     [cmd |-> "", arg |-> ""]}

\* a line that is not UTF-8: data.decode() raises
Garbled == [cmd |-> "garbled", arg |-> ""]

\* the configurations of the handshake: trust filtering off, every
\* combination of method and secrets
AuthConfigs ==
    [enable_trusted_sources : {FALSE}, enable_auto_trust : {FALSE},
     trusted_sources : {{1}}, trusted_subnets : {{}},
     auth_method : {"none", "token", "psk"}, auth_token : {"", "tok"}, psk_key : {"", "psk"},
     max_connection_attempts : {MaxAttempts},
     max_connection_attempts_from_untrusted_subnet : {MaxSubnetAttempts},
     connection_attempt_period : {Period},
     enable_firewall_ip_blocking : {FALSE},
     enable_subnet_connection_attempt_blocking : {FALSE}]

InitAuth ==
    /\ config \in AuthConfigs
    /\ firewall = "noop"
    /\ connection_attempts = [ip \in IPs |-> <<>>]
    /\ subnet_connection_attempts = [sn \in Subnets |-> <<>>]
    /\ auto_trusted_ips = {}
    /\ gpc = [g \in Peer |-> "new"]
    /\ client_ip = [g \in Peer |-> None]
    /\ glines = [g \in Peer |-> <<>>]
    /\ reply = [g \in Peer |-> NoMsg]
    /\ acquired = [g \in Peer |-> FALSE]
    /\ recorded = [g \in Peer |-> 0]
    /\ entryAtOpen = [g \in Peer |-> 0]
    /\ entryAtClose = [g \in Peer |-> 0]
    /\ appends = [ip \in IPs |-> 0]
    /\ block_ip_calls = [ip \in IPs |-> 0]
    /\ clears = [ip \in IPs |-> 0]

\* authenticate_client_multi: the line read cannot be decoded; the exception
\* is caught and the handshake returns False with nothing written
AuthUndecodable(g) ==
    /\ gpc[g] = "auth_wait"
    /\ reply' = [reply EXCEPT ![g] = Garbled]
    /\ gpc' = [gpc EXCEPT ![g] = "closed"]
    /\ UNCHANGED <<config, firewall, auto_trusted_ips, client_ip, glines, acquired,
                   recorded, entryAtOpen, entryAtClose, connection_attempts,
                   subnet_connection_attempts, appends, block_ip_calls, clears>>

NextAuth ==
    \/ \E g \in Peer : Admit(g, 1) /\ UNCHANGED notGate
    \/ \E g \in Peer, msg \in AuthMsgs : AuthLine(g, msg) /\ UNCHANGED notGate
    \/ \E g \in Peer : AuthNoLine(g) /\ UNCHANGED notGate
    \/ \E g \in Peer : AuthUndecodable(g) /\ UNCHANGED notGate
    \/ \E g \in Peer : AuthOkDrained(g) /\ UNCHANGED notGate
    \/ \E g \in Peer : AuthFailed(g) /\ UNCHANGED notGate

\* ------------------------------------------------------ multiplex_handler
Line(c, a) == [cmd |-> c, arg |-> a]

NoLine == Line("", 0)

\* a line that is not UTF-8: data.decode() raises
GarbledLine == Line("garbled", 0)

\* the lines a client may send during the negotiation, stripped
MuxLines ==
    {Line("ENGINE_LIST", 0), Line("uci", 0)} \cup {Line("SELECT_ENGINE", n) : n \in MuxNames}

\* the lines a client sends once its bridge runs
UciLines == {Line("uci", 0), Line("isready", 0)}

\* the registries build_engine_registry can leave: distinct names in
\* insertion order
Registries ==
    {r \in UNION {[1..k -> MuxNames] : k \in 0..MaxReg} :
        \A i \in DOMAIN r, j \in DOMAIN r : r[i] = r[j] => i = j}

\* validate_config lets a default through only when it names an engine
InitMux ==
    /\ ALL_ENGINES \in Registries
    /\ default_engine \in {None} \cup Range(ALL_ENGINES)
    /\ mpc = [g \in MuxConn |-> "new"]
    /\ mlines = [g \in MuxConn |-> <<>>]
    /\ first_line = [g \in MuxConn |-> NoLine]
    /\ sel_line = [g \in MuxConn |-> NoLine]
    /\ rpos = [g \in MuxConn |-> 0]
    /\ bridge_engine = [g \in MuxConn |-> None]
    /\ engine_in = [g \in MuxConn |-> <<>>]

RECURSIVE SortedSeq(_)
SortedSeq(S) ==
    IF S = {} THEN <<>>
    ELSE LET m == CHOOSE x \in S : \A y \in S : x <= y
         IN <<m>> \o SortedSeq(S \ {m})

\* mutant: the registry in insertion order
SortedNamesAsInserted == ALL_ENGINES

\* sorted(ALL_ENGINES.keys())
SortedNames == SortedSeq(Range(ALL_ENGINES))

\* mutant: the descriptor inserted last
DefaultEngineLast ==
    IF default_engine # None THEN default_engine
    ELSE IF ALL_ENGINES # <<>> THEN ALL_ENGINES[Len(ALL_ENGINES)] ELSE None

\* engine_name = config.get("default_engine", ""), else next(iter(ALL_ENGINES))
DefaultEngine ==
    IF default_engine # None THEN default_engine
    ELSE IF ALL_ENGINES # <<>> THEN ALL_ENGINES[1] ELSE None

\* the trust check and the handshake are skipped by this configuration
MuxGateSkipped == ~config.enable_trusted_sources /\ ~has_auth

\* the handler of a new connection starts; connections are numbered in the
\* order their handlers reach the first read
MuxArrives(g) ==
    /\ mpc[g] = "new" /\ MuxGateSkipped
    /\ \A d \in MuxConn : d < g => mpc[d] # "new"

\* the tail of multiplex_handler: the engine is looked up and client_handler
\* is called, which writes its own uci to the engine
Delegate(g, engine_name) ==
    IF engine_name \notin Range(ALL_ENGINES)
    THEN /\ mpc' = [mpc EXCEPT ![g] = "closed"]
         /\ UNCHANGED <<bridge_engine, engine_in>>
    ELSE /\ mpc' = [mpc EXCEPT ![g] = "bridge"]
         /\ bridge_engine' = [bridge_engine EXCEPT ![g] = engine_name]
         /\ engine_in' = [engine_in EXCEPT ![g] =
                             Append(@, [src |-> "server", idx |-> 0, line |-> Line("uci", 0)])]

\* the first line arrives
MuxFirstLine(g, line) ==
    /\ MuxArrives(g)
    /\ first_line' = [first_line EXCEPT ![g] = line]
    /\ rpos' = [rpos EXCEPT ![g] = 1]
    /\ IF line = Line("ENGINE_LIST", 0)
       THEN /\ mlines' = [mlines EXCEPT ![g] =
                   @ \o [i \in 1..Len(SortedNames) |-> Line("ENGINE", SortedNames[i])]
                     \o <<Line("ENGINES_END", 0)>>]
            /\ mpc' = [mpc EXCEPT ![g] = "select_wait"]
            /\ UNCHANGED <<bridge_engine, engine_in>>
       ELSE /\ Delegate(g, DefaultEngine)
            /\ UNCHANGED mlines
    /\ UNCHANGED <<ALL_ENGINES, default_engine, sel_line>>

\* end of stream or 30 s of silence instead of the first line
MuxFirstSilence(g) ==
    /\ MuxArrives(g)
    /\ mpc' = [mpc EXCEPT ![g] = "closed"]
    /\ UNCHANGED <<ALL_ENGINES, default_engine, mlines, first_line, sel_line, rpos,
                   bridge_engine, engine_in>>

\* the first line cannot be decoded: the exception leaves the handler
MuxFirstGarbled(g) ==
    /\ MuxArrives(g)
    /\ first_line' = [first_line EXCEPT ![g] = GarbledLine]
    /\ rpos' = [rpos EXCEPT ![g] = 1]
    /\ mpc' = [mpc EXCEPT ![g] = "raised"]
    /\ UNCHANGED <<ALL_ENGINES, default_engine, mlines, sel_line, bridge_engine, engine_in>>

\* the line after the engine list arrives
MuxSelectLine(g, line) ==
    /\ mpc[g] = "select_wait"
    /\ sel_line' = [sel_line EXCEPT ![g] = line]
    /\ rpos' = [rpos EXCEPT ![g] = 2]
    /\ IF line.cmd = "SELECT_ENGINE"
       THEN IF line.arg \in Range(ALL_ENGINES)
            THEN /\ mlines' = [mlines EXCEPT ![g] = Append(@, Line("ENGINE_SELECTED", 0))]
                 /\ Delegate(g, line.arg)
            ELSE /\ mlines' = [mlines EXCEPT ![g] = Append(@, Line("ENGINE_ERROR unknown engine", 0))]
                 /\ mpc' = [mpc EXCEPT ![g] = "closed"]
                 /\ UNCHANGED <<bridge_engine, engine_in>>
       ELSE /\ Delegate(g, DefaultEngine)
            /\ UNCHANGED mlines
    /\ UNCHANGED <<ALL_ENGINES, default_engine, first_line>>

MuxSelectSilence(g) ==
    /\ mpc[g] = "select_wait"
    /\ mpc' = [mpc EXCEPT ![g] = "closed"]
    /\ UNCHANGED <<ALL_ENGINES, default_engine, mlines, first_line, sel_line, rpos,
                   bridge_engine, engine_in>>

MuxSelectGarbled(g) ==
    /\ mpc[g] = "select_wait"
    /\ sel_line' = [sel_line EXCEPT ![g] = GarbledLine]
    /\ rpos' = [rpos EXCEPT ![g] = 2]
    /\ mpc' = [mpc EXCEPT ![g] = "raised"]
    /\ UNCHANGED <<ALL_ENGINES, default_engine, mlines, first_line, bridge_engine, engine_in>>

\* process_client_commands of the bridge: the next line of the client goes
\* to the engine
BridgeForward(g, line) ==
    /\ mpc[g] = "bridge"
    /\ Cardinality({i \in DOMAIN engine_in[g] : engine_in[g][i].src = "client"}) < MaxFwd
    /\ rpos' = [rpos EXCEPT ![g] = @ + 1]
    /\ engine_in' = [engine_in EXCEPT ![g] =
                        Append(@, [src |-> "client", idx |-> rpos[g] + 1, line |-> line])]
    /\ UNCHANGED <<ALL_ENGINES, default_engine, mpc, mlines, first_line, sel_line,
                   bridge_engine>>

NextMux ==
    \/ \E g \in MuxConn, line \in MuxLines : MuxFirstLine(g, line) /\ UNCHANGED notMux
    \/ \E g \in MuxConn : MuxFirstSilence(g) /\ UNCHANGED notMux
    \/ \E g \in MuxConn : MuxFirstGarbled(g) /\ UNCHANGED notMux
    \/ \E g \in MuxConn, line \in MuxLines : MuxSelectLine(g, line) /\ UNCHANGED notMux
    \/ \E g \in MuxConn : MuxSelectSilence(g) /\ UNCHANGED notMux
    \/ \E g \in MuxConn : MuxSelectGarbled(g) /\ UNCHANGED notMux
    \/ \E g \in MuxConn, line \in UciLines : BridgeForward(g, line) /\ UNCHANGED notMux

\* --------------------------------------------------------- relay_listener
Wrote(t) == [dir |-> "write", text |-> t]

Got(t) == [dir |-> "read", text |-> t]

\* what the rendezvous server may answer; "" is the end of the stream and
\* "garbled" a line that cannot be decoded
RelayResponses ==
    {"REGISTERED", "PAIRED", "ERROR max sessions reached", "CONNECTED", "", "garbled"}

InitDial ==
    /\ listener_engine \in {"_multiplex", "stockfish"}
    /\ listener_config \in [enable_trusted_sources : BOOLEAN]
    /\ lpc = "dial"
    /\ dials = 0
    /\ wire = <<>>
    /\ writer_closed = {}
    /\ handoffs = <<>>
    /\ cancel_requested = FALSE

is_multiplex == listener_engine = "_multiplex"

\* mutant: the configuration is passed on as it came
relay_config_as_given == listener_config

\* relay_config = dict(config); relay_config["enable_trusted_sources"] = False
relay_config == [listener_config EXCEPT !.enable_trusted_sources = FALSE]

\* the connection in use
Current == Len(wire)

\* open_connection returns; SESSION <id> server is written and drained
DialConnects ==
    /\ lpc = "dial" /\ dials < MaxDials
    /\ dials' = dials + 1
    /\ wire' = Append(wire, <<Wrote("SESSION <id> server")>>)
    /\ lpc' = "registering"
    /\ UNCHANGED <<listener_engine, listener_config, writer_closed, handoffs, cancel_requested>>

\* open_connection raises OSError: Retrying in 10s
DialFails ==
    /\ lpc = "dial" /\ dials < MaxDials
    /\ dials' = dials + 1
    /\ lpc' = "pause"
    /\ UNCHANGED <<listener_engine, listener_config, wire, writer_closed, handoffs,
                   cancel_requested>>

\* the first read returns: REGISTERED goes on to the pairing wait, anything
\* else raises
ReadRegistration(resp) ==
    /\ lpc = "registering"
    /\ wire' = [wire EXCEPT ![Current] = Append(@, Got(resp))]
    /\ lpc' = IF resp = "REGISTERED" THEN "pairing" ELSE "pause"
    /\ UNCHANGED <<listener_engine, listener_config, dials, writer_closed, handoffs,
                   cancel_requested>>

\* no answer within 10 s: wait_for raises
RegistrationTimeout ==
    /\ lpc = "registering"
    /\ lpc' = "pause"
    /\ UNCHANGED <<listener_engine, listener_config, dials, wire, writer_closed, handoffs,
                   cancel_requested>>

\* the second read returns: PAIRED hands the connection to the handler,
\* anything else raises
ReadPairing(resp) ==
    /\ lpc = "pairing"
    /\ wire' = [wire EXCEPT ![Current] = Append(@, Got(resp))]
    /\ IF resp = "PAIRED"
       THEN /\ handoffs' = Append(handoffs,
                   [conn |-> Current,
                    handler |-> IF is_multiplex THEN "multiplex_handler" ELSE "client_handler",
                    config |-> relay_config])
            /\ lpc' = "bridge"
       ELSE /\ lpc' = "pause"
            /\ UNCHANGED handoffs
    /\ UNCHANGED <<listener_engine, listener_config, dials, writer_closed, cancel_requested>>

\* mutant: the keepalive ceiling passes and the connection is left open
KeepaliveTimeoutLeavesOpen ==
    /\ lpc = "pairing"
    /\ lpc' = "dial"
    /\ UNCHANGED <<listener_engine, listener_config, dials, wire, writer_closed, handoffs,
                   cancel_requested>>

\* RELAY_KEEPALIVE_SEC pass with no pairing: writer.close(); continue
KeepaliveTimeout ==
    /\ lpc = "pairing"
    /\ writer_closed' = writer_closed \cup {Current}
    /\ lpc' = "dial"
    /\ UNCHANGED <<listener_engine, listener_config, dials, wire, handoffs, cancel_requested>>

\* the handler returns: the loop goes round
BridgeReturns ==
    /\ lpc = "bridge"
    /\ lpc' = "dial"
    /\ UNCHANGED <<listener_engine, listener_config, dials, wire, writer_closed, handoffs,
                   cancel_requested>>

\* the handler raises: Retrying in 10s
BridgeRaises ==
    /\ lpc = "bridge"
    /\ lpc' = "pause"
    /\ UNCHANGED <<listener_engine, listener_config, dials, wire, writer_closed, handoffs,
                   cancel_requested>>

\* asyncio.sleep(10) returns
PauseOver ==
    /\ lpc = "pause"
    /\ lpc' = "dial"
    /\ UNCHANGED <<listener_engine, listener_config, dials, wire, writer_closed, handoffs,
                   cancel_requested>>

\* the task is cancelled at the await it is suspended in: CancelledError is
\* caught in the loop (break) or, during the pause, leaves the coroutine
Cancel ==
    /\ lpc # "cancelled"
    /\ cancel_requested' = TRUE
    /\ lpc' = "cancelled"
    /\ UNCHANGED <<listener_engine, listener_config, dials, wire, writer_closed, handoffs>>

NextDial ==
    \/ DialConnects /\ UNCHANGED notDial
    \/ DialFails /\ UNCHANGED notDial
    \/ \E resp \in RelayResponses : ReadRegistration(resp) /\ UNCHANGED notDial
    \/ RegistrationTimeout /\ UNCHANGED notDial
    \/ \E resp \in RelayResponses : ReadPairing(resp) /\ UNCHANGED notDial
    \/ KeepaliveTimeout /\ UNCHANGED notDial
    \/ BridgeReturns /\ UNCHANGED notDial
    \/ BridgeRaises /\ UNCHANGED notDial
    \/ PauseOver /\ UNCHANGED notDial
    \/ Cancel /\ UNCHANGED notDial

\* a sleep ends and a connection attempt ends, one way or the other
FairDial == WF_vars(PauseOver /\ UNCHANGED notDial)

\* --------------------------------------------------------------- heartbeat
InitHb ==
    /\ hb_interval \in 1..MaxInterval
    /\ hb_now = 0
    /\ hb_wake = hb_interval
    /\ hpc = "sleep"
    /\ hb_stdin = <<>>
    /\ hb_client = <<>>
    /\ stdin_broken = FALSE

\* mutant: the exception of a failed write leaves the coroutine
HbFailedPropagates == "raised"

\* except Exception: logging.debug(...); break
HbFailed == "stopped"

\* asyncio.sleep(interval) returns; isready is written to the engine. On a
\* broken pipe the write raises, or is dropped and the drain raises at once
HbBeat ==
    /\ hpc = "sleep" /\ hb_now >= hb_wake
    /\ hb_stdin' = Append(hb_stdin, [text |-> "isready\n", at |-> hb_now])
    /\ hpc' = IF stdin_broken THEN HbFailed ELSE "drain"
    /\ UNCHANGED <<hb_interval, hb_now, hb_wake, hb_client, stdin_broken>>

\* engine_process.stdin.drain() returns, or raises when the pipe broke
\* meanwhile; the next sleep starts
HbDrained ==
    /\ hpc = "drain"
    /\ IF stdin_broken
       THEN hpc' = HbFailed /\ UNCHANGED hb_wake
       ELSE hpc' = "sleep" /\ hb_wake' = hb_now + hb_interval
    /\ UNCHANGED <<hb_interval, hb_now, hb_stdin, hb_client, stdin_broken>>

\* the engine exits or closes its standard input
HbEngineDies ==
    /\ ~stdin_broken /\ hpc \in {"sleep", "drain"}
    /\ stdin_broken' = TRUE
    /\ UNCHANGED <<hb_interval, hb_now, hb_wake, hpc, hb_stdin, hb_client>>

\* heartbeat_task.cancel(): CancelledError is not an Exception and ends the task
HbCancel ==
    /\ hpc \in {"sleep", "drain"}
    /\ hpc' = "cancelled"
    /\ UNCHANGED <<hb_interval, hb_now, hb_wake, hb_stdin, hb_client, stdin_broken>>

\* time passes; a due timer may fire late
HbTick ==
    /\ hb_now < MaxHbTime /\ hpc \in {"sleep", "drain"}
    /\ hb_now' = hb_now + 1
    /\ UNCHANGED <<hb_interval, hb_wake, hpc, hb_stdin, hb_client, stdin_broken>>

NextHb ==
    \/ HbBeat /\ UNCHANGED notHb
    \/ HbDrained /\ UNCHANGED notHb
    \/ HbEngineDies /\ UNCHANGED notHb
    \/ HbCancel /\ UNCHANGED notHb
    \/ HbTick /\ UNCHANGED notHb

\* ------------------------------------------------ main: graceful shutdown
InitShut ==
    /\ main_pc = "serving"
    /\ names = {}
    /\ sd_waiting = None
    /\ task_state = [k \in OrchTasks |-> "running"]
    /\ pid_file = TRUE
    /\ via = [b \in Bridge |-> "none"]

\* a connection reaches client_handler: accepted by a listener, which runs
\* the handler as a task of its own, or paired through the relay, where the
\* handler runs inside the dialer's task (one at a time)
BridgeArrives(b, o) ==
    /\ main_pc # "completed"
    /\ task_state[o] = "running"
    /\ o = "dialer" => \A d \in Bridge : via[d] = "dialer" => bpc[d] = "closed"
    /\ via' = [via EXCEPT ![b] = o]
    /\ UNCHANGED <<main_pc, names, sd_waiting, task_state, pid_file>>

\* main lines 2056-2062 with shutdown_all lines 1182-1185: the shutdown event
\* is set; the names are listed under the lock
ShutdownSignal ==
    /\ main_pc = "serving"
    /\ names' = {n \in EngineNames : sm_sessions[n].process # None}
    /\ main_pc' = "shutdown_all"
    /\ UNCHANGED <<sd_waiting, task_state, pid_file, via>>
    /\ UNCHANGED smVars

\* shutdown_all lines 1186-1187 with _terminate: the entry of the next name
\* is popped; a live process is sent quit and terminate() and waited for
ShutdownTerminate(n) ==
    /\ main_pc = "shutdown_all" /\ n \in names
    /\ names' = names \ {n}
    /\ LET p == sm_sessions[n].process
       IN /\ sm_sessions' = [sm_sessions EXCEPT ![n] = NoEntry]
          /\ procState' = Terminate(procState, n)
          /\ IF p # None /\ ReturncodeNone(p)
             THEN main_pc' = "terminate_wait" /\ sd_waiting' = p
             ELSE UNCHANGED <<main_pc, sd_waiting>>
    /\ UNCHANGED <<task_state, pid_file, via>>
    /\ UNCHANGED <<keepalive, now, bpc, bname, engine_process, reattached, task, deadline,
                   lookupProc, lookupAlive, releasedAt>>

\* _terminate line 1178: process.wait() returns
ShutdownWaited ==
    /\ main_pc = "terminate_wait"
    /\ procState[sd_waiting] # "terminating"
    /\ main_pc' = "shutdown_all"
    /\ sd_waiting' = None
    /\ UNCHANGED <<names, task_state, pid_file, via>>
    /\ UNCHANGED smVars

\* shutdown_all returns; main lines 2063-2066: every task is cancelled and
\* gathered
CancelTasks ==
    /\ main_pc = "shutdown_all" /\ names = {}
    /\ task_state' = [k \in OrchTasks |-> "cancelled"]
    /\ main_pc' = "gather"
    /\ UNCHANGED <<names, sd_waiting, pid_file, via>>
    /\ UNCHANGED smVars

\* the bridge of the relay dialer is running
InDialer(b) == via[b] = "dialer" /\ bpc[b] \in {"spawning", "holding"}

\* the cancelled dialer's bridge gets CancelledError while holding its
\* engine: client_handler's finally releases it
DialerBridgeCancelled(b) ==
    /\ main_pc = "gather" /\ via[b] = "dialer"
    /\ Release(b)
    /\ UNCHANGED sdVars

\* the cancelled dialer's bridge gets CancelledError inside
\* create_subprocess_exec: engine_process is None, nothing is released
DialerSpawnCancelled(b) ==
    /\ main_pc = "gather" /\ via[b] = "dialer"
    /\ GetOrCreateSpawnFails(b)
    /\ UNCHANGED sdVars

\* main lines 2066-2071: gather returns once the cancelled tasks have ended;
\* the PID file is removed. The handlers of the connections a listener has
\* accepted are tasks of their own and are not waited for
ShutdownCompleted ==
    /\ main_pc = "gather"
    /\ \A b \in Bridge : ~InDialer(b)
    /\ task_state' = [k \in OrchTasks |-> "finished"]
    /\ pid_file' = FALSE
    /\ main_pc' = "completed"
    /\ UNCHANGED <<names, sd_waiting, via>>
    /\ UNCHANGED smVars

\* the session manager and its bridges while main runs
ServingStep ==
    /\ main_pc # "completed"
    /\ UNCHANGED sdVars

NextShut ==
    \/ \E b \in 1..MaxArrivals, n \in EngineNames, o \in {"listener", "dialer"} :
          GetOrCreateLookup(b, n) /\ BridgeArrives(b, o) /\ UNCHANGED notSMShut
    \/ \E b \in Bridge : GetOrCreateSpawned(b) /\ ServingStep /\ UNCHANGED notSMShut
    \/ \E b \in Bridge : GetOrCreateSpawnFails(b) /\ ServingStep /\ UNCHANGED notSMShut
    \/ \E b \in Bridge : Release(b) /\ ServingStep /\ UNCHANGED notSMShut
    \/ \E t \in Task : ExpiryFires(t) /\ ServingStep /\ UNCHANGED notSMShut
    \/ \E p \in Proc : ProcReaped(p) /\ ServingStep /\ UNCHANGED notSMShut
    \/ \E t \in Task : ExpiryDone(t) /\ ServingStep /\ UNCHANGED notSMShut
    \/ \E p \in Proc : ProcExits(p) /\ ServingStep /\ UNCHANGED notSMShut
    \/ Tick /\ ServingStep /\ UNCHANGED notSMShut
    \/ ShutdownSignal /\ UNCHANGED notSMShut
    \/ \E n \in EngineNames : ShutdownTerminate(n) /\ UNCHANGED notSMShut
    \/ ShutdownWaited /\ UNCHANGED notSMShut
    \/ CancelTasks /\ UNCHANGED notSMShut
    \/ \E b \in Bridge : DialerBridgeCancelled(b) /\ UNCHANGED notSMShut
    \/ \E b \in Bridge : DialerSpawnCancelled(b) /\ UNCHANGED notSMShut
    \/ ShutdownCompleted /\ UNCHANGED notSMShut

\* ------------------------------------------- resolve_ports (per-engine mode)
InitPorts ==
    /\ configured \in [PortEngine -> 1..MaxPort]
    /\ details_port = configured
    /\ claimed = {}
    /\ in_use \in SUBSET (1..MaxPort)
    /\ rp_next = 1
    /\ rp_raised = FALSE
    /\ free_at_probe = [n \in PortEngine |-> {}]

\* the ports find_available_port probes, in order
ProbeRange(preferred_port) == preferred_port .. (preferred_port + MaxProbe - 1)

\* find_available_port: the first port from preferred_port on that is not
\* excluded and on which bind() succeeds; None stands for the OSError raised
\* after max_attempts ports
find_available_port_unexcluded(preferred_port, exclude, bound) ==
    LET ok == {p \in ProbeRange(preferred_port) : p \notin bound}
    IN IF ok = {} THEN None ELSE CHOOSE p \in ok : \A q \in ok : p <= q
find_available_port(preferred_port, exclude, bound) ==
    LET ok == {p \in ProbeRange(preferred_port) : p \notin exclude /\ p \notin bound}
    IN IF ok = {} THEN None ELSE CHOOSE p \in ok : \A q \in ok : p <= q

\* resolve_ports lines 706-715: one round of the loop over the sorted names
ResolveNextPort ==
    /\ rp_next \in PortEngine /\ ~rp_raised
    /\ LET actual == find_available_port(details_port[rp_next], claimed, in_use)
       IN /\ free_at_probe' = [free_at_probe EXCEPT ![rp_next] =
                                  ProbeRange(details_port[rp_next]) \ in_use]
          /\ IF actual = None
             THEN /\ rp_raised' = TRUE
                  /\ UNCHANGED <<details_port, claimed, rp_next>>
             ELSE /\ details_port' = [details_port EXCEPT ![rp_next] = actual]
                  /\ claimed' = claimed \cup {actual}
                  /\ rp_next' = rp_next + 1
                  /\ UNCHANGED rp_raised
    /\ UNCHANGED <<configured, in_use>>

\* another program binds a port or closes its socket
PortBound(p) ==
    /\ p \notin in_use
    /\ in_use' = in_use \cup {p}
    /\ UNCHANGED <<configured, details_port, claimed, rp_next, rp_raised, free_at_probe>>

PortUnbound(p) ==
    /\ p \in in_use
    /\ in_use' = in_use \ {p}
    /\ UNCHANGED <<configured, details_port, claimed, rp_next, rp_raised, free_at_probe>>

NextPorts ==
    \/ ResolveNextPort /\ UNCHANGED notPorts
    \/ \E p \in 1..MaxPort : PortBound(p) /\ UNCHANGED notPorts
    \/ \E p \in 1..MaxPort : PortUnbound(p) /\ UNCHANGED notPorts

\* ----------------------------- session manager: expiries against reattaches
InitReattach == pending_at = [b \in Bridge |-> {}]

\* get_or_create line 1126 (return proc, True): the expiry tasks of the name
\* that were scheduled earlier and have outlived the cancel of line 1119
ReattachReturns(b, n) ==
    pending_at' = [pending_at EXCEPT ![b] =
                      {t \in Task : task'[t] = "sleeping" /\ bname[t] = n}]

NextReattach ==
    \/ \E b \in Bridge, n \in EngineNames :
          GetOrCreateLookup(b, n) /\ ReattachReturns(b, n) /\ UNCHANGED notSMReattach
    \/ \E b \in Bridge : GetOrCreateSpawned(b) /\ UNCHANGED raVars /\ UNCHANGED notSMReattach
    \/ \E b \in Bridge : GetOrCreateSpawnFails(b) /\ UNCHANGED raVars /\ UNCHANGED notSMReattach
    \/ \E b \in Bridge : Release(b) /\ UNCHANGED raVars /\ UNCHANGED notSMReattach
    \/ \E t \in Task : ExpiryFires(t) /\ UNCHANGED raVars /\ UNCHANGED notSMReattach
    \/ \E p \in Proc : ProcReaped(p) /\ UNCHANGED raVars /\ UNCHANGED notSMReattach
    \/ \E t \in Task : ExpiryDone(t) /\ UNCHANGED raVars /\ UNCHANGED notSMReattach
    \/ \E p \in Proc : ProcExits(p) /\ UNCHANGED raVars /\ UNCHANGED notSMReattach
    \/ Tick /\ UNCHANGED raVars /\ UNCHANGED notSMReattach

\* ------------------------------------- client_handler: the life of a bridge
InitHandler ==
    /\ ch_keepalive \in {0, 1}
    /\ ch_pc = "acquire"
    /\ held = FALSE
    /\ client_loop = "off" /\ engine_loop = "off"
    /\ heartbeat_task = "none"
    /\ inactivity_task = "running"
    /\ is_closing = FALSE
    /\ transport_closes = 0
    /\ ch_engine = "none"
    /\ ch_released = "no"
    /\ peer = "open"
    /\ client_pending = 0 /\ engine_pending = 0
    /\ idle_for = 0
    /\ cancelled = FALSE

\* task.cancel() of a task that may have ended already
CancelTask(t) == IF t = "running" THEN "cancelled" ELSE t

\* finally lines 1485-1488: inactivity_task.cancel(); heartbeat_task.cancel()
CancelChildren ==
    /\ inactivity_task' = CancelTask(inactivity_task)
    /\ heartbeat_task' = CancelTask(heartbeat_task)

\* the copy loops of a handler that leaves the try block
StopLoop(l) == IF l = "running" THEN "ended" ELSE l

\* mutant: the engine always goes back to the session manager
ReleaseHowAlwaysSession == "release"

\* finally lines 1489-1498: release with keepalive > 0, terminate otherwise
ReleaseHow == IF ch_keepalive > 0 THEN "release" ELSE "terminate"

\* lines 1313-1333: the engine is acquired and the heartbeat task is started
Acquired ==
    /\ ch_pc = "acquire"
    /\ held' = TRUE /\ ch_engine' = "alive"
    /\ heartbeat_task' = "running"
    /\ ch_pc' = "uci_init"
    /\ UNCHANGED <<ch_keepalive, client_loop, engine_loop, inactivity_task, is_closing,
                   transport_closes, ch_released, peer, client_pending, engine_pending,
                   idle_for, cancelled>>

\* lines 1313-1327 raise (the engine cannot be started): except Exception,
\* then finally with engine_process None
AcquireFails ==
    /\ ch_pc = "acquire"
    /\ CancelChildren
    /\ ch_pc' = "close"
    /\ UNCHANGED <<ch_keepalive, held, client_loop, engine_loop, is_closing, transport_closes,
                   ch_engine, ch_released, peer, client_pending, engine_pending, idle_for,
                   cancelled>>

\* lines 1352-1356: uci and the custom variables are written; process_command
\* swallows what the write raises
UciInit ==
    /\ ch_pc = "uci_init"
    /\ ch_pc' = "await_uciok"
    /\ UNCHANGED <<ch_keepalive, held, client_loop, engine_loop, heartbeat_task,
                   inactivity_task, is_closing, transport_closes, ch_engine, ch_released,
                   peer, client_pending, engine_pending, idle_for, cancelled>>

\* lines 1362-1383: a line other than uciok is read and forwarded
PreUciLine ==
    /\ ch_pc = "await_uciok" /\ ch_engine = "alive"
    /\ UNCHANGED chVars

\* lines 1377-1378 raise (the client is gone): except, then finally
PreUciWriteFails ==
    /\ ch_pc = "await_uciok" /\ ch_engine = "alive"
    /\ peer = "eof" \/ is_closing
    /\ CancelChildren
    /\ ch_pc' = "finally"
    /\ UNCHANGED <<ch_keepalive, held, client_loop, engine_loop, is_closing, transport_closes,
                   ch_engine, ch_released, peer, client_pending, engine_pending, idle_for,
                   cancelled>>

\* lines 1384-1386 and 1396-1479: uciok was forwarded; the two copy loops start
PreUciOk ==
    /\ ch_pc = "await_uciok" /\ ch_engine = "alive"
    /\ ch_pc' = "steady"
    /\ client_loop' = "running" /\ engine_loop' = "running"
    /\ UNCHANGED <<ch_keepalive, held, heartbeat_task, inactivity_task, is_closing,
                   transport_closes, ch_engine, ch_released, peer, client_pending,
                   engine_pending, idle_for, cancelled>>

\* writer.close(): a transport that is closing already ignores it
Close(n) == IF is_closing THEN n ELSE n + 1

\* lines 1365-1373: no line within UCIOK_TIMEOUT; kill, writer.close(), return
PreUciTimeout ==
    /\ ch_pc = "await_uciok" /\ ch_engine = "alive"
    /\ ch_engine' = "exited"
    /\ is_closing' = TRUE /\ transport_closes' = Close(transport_closes)
    /\ CancelChildren
    /\ ch_pc' = "finally"
    /\ UNCHANGED <<ch_keepalive, held, client_loop, engine_loop, ch_released, peer,
                   client_pending, engine_pending, idle_for, cancelled>>

\* lines 1374-1375 and 1388-1393: the engine exited before uciok
PreUciEof ==
    /\ ch_pc = "await_uciok" /\ ch_engine = "exited"
    /\ is_closing' = TRUE /\ transport_closes' = Close(transport_closes)
    /\ CancelChildren
    /\ ch_pc' = "finally"
    /\ UNCHANGED <<ch_keepalive, held, client_loop, engine_loop, ch_engine, ch_released,
                   peer, client_pending, engine_pending, idle_for, cancelled>>

\* process_client_commands lines 1400-1433: a line is read and sent on;
\* process_command swallows the error of a write to an engine that is gone
ClientLoopRead ==
    /\ ch_pc = "steady" /\ client_loop = "running"
    /\ client_pending > 0
    /\ client_pending' = client_pending - 1
    /\ idle_for' = 0
    /\ UNCHANGED <<ch_keepalive, ch_pc, held, client_loop, engine_loop, heartbeat_task,
                   inactivity_task, is_closing, transport_closes, ch_engine, ch_released,
                   peer, engine_pending, cancelled>>

\* process_client_commands lines 1401-1402 and 1437-1442: end of stream (the
\* client closed, or the transport was closed under the reader) or an error
ClientLoopEnds ==
    /\ ch_pc = "steady" /\ client_loop = "running"
    /\ client_pending = 0
    /\ peer = "eof" \/ is_closing
    /\ client_loop' = "ended"
    /\ UNCHANGED <<ch_keepalive, ch_pc, held, engine_loop, heartbeat_task, inactivity_task,
                   is_closing, transport_closes, ch_engine, ch_released, peer, client_pending,
                   engine_pending, idle_for, cancelled>>

\* process_engine_responses lines 1446-1459: a line is read and forwarded
\* (drain raises once the transport was closed on this side)
EngineLoopForward ==
    /\ ch_pc = "steady" /\ engine_loop = "running"
    /\ engine_pending > 0
    /\ ~is_closing
    /\ engine_pending' = engine_pending - 1
    /\ UNCHANGED <<ch_keepalive, ch_pc, held, client_loop, engine_loop, heartbeat_task,
                   inactivity_task, is_closing, transport_closes, ch_engine, ch_released,
                   peer, client_pending, idle_for, cancelled>>

\* process_engine_responses lines 1454-1455 with 1462-1467: the write to a
\* client that is gone raises
EngineLoopWriteFails ==
    /\ ch_pc = "steady" /\ engine_loop = "running"
    /\ engine_pending > 0
    /\ peer = "eof" \/ is_closing
    /\ engine_pending' = engine_pending - 1
    /\ engine_loop' = "ended"
    /\ UNCHANGED <<ch_keepalive, ch_pc, held, client_loop, heartbeat_task, inactivity_task,
                   is_closing, transport_closes, ch_engine, ch_released, peer, client_pending,
                   idle_for, cancelled>>

\* process_engine_responses lines 1450-1451: end of the engine's output
EngineLoopEof ==
    /\ ch_pc = "steady" /\ engine_loop = "running"
    /\ engine_pending = 0 /\ ch_engine = "exited"
    /\ engine_loop' = "ended"
    /\ UNCHANGED <<ch_keepalive, ch_pc, held, client_loop, heartbeat_task, inactivity_task,
                   is_closing, transport_closes, ch_engine, ch_released, peer, client_pending,
                   engine_pending, idle_for, cancelled>>

\* lines 1469-1472 and 1485-1488: gather returns when both loops have ended
GatherReturns ==
    /\ ch_pc = "steady" /\ client_loop = "ended" /\ engine_loop = "ended"
    /\ CancelChildren
    /\ ch_pc' = "finally"
    /\ UNCHANGED <<ch_keepalive, held, client_loop, engine_loop, is_closing, transport_closes,
                   ch_engine, ch_released, peer, client_pending, engine_pending, idle_for,
                   cancelled>>

\* the task is cancelled at one of its suspension points: CancelledError
\* passes every except clause and the finally block runs
HandlerCancelled ==
    /\ ch_pc \in {"uci_init", "await_uciok", "steady"}
    /\ ~cancelled
    /\ cancelled' = TRUE
    /\ client_loop' = StopLoop(client_loop) /\ engine_loop' = StopLoop(engine_loop)
    /\ CancelChildren
    /\ ch_pc' = "finally"
    /\ UNCHANGED <<ch_keepalive, held, is_closing, transport_closes, ch_engine, ch_released,
                   peer, client_pending, engine_pending, idle_for>>

\* finally lines 1489-1498: session_manager.release, or terminate() and
\* wait(); terminate() of a process that exited raises ProcessLookupError
FinallyRelease ==
    /\ ch_pc = "finally"
    /\ ch_released' = ReleaseHow
    /\ IF ch_keepalive = 0 /\ ch_engine = "alive"
         THEN ch_engine' = "terminating" /\ ch_pc' = "wait"
         ELSE ch_pc' = "close" /\ UNCHANGED ch_engine
    /\ UNCHANGED <<ch_keepalive, held, client_loop, engine_loop, heartbeat_task,
                   inactivity_task, is_closing, transport_closes, peer, client_pending,
                   engine_pending, idle_for, cancelled>>

\* finally line 1496: engine_process.wait() returns
FinallyWaited ==
    /\ ch_pc = "wait"
    /\ ch_engine' = "terminated"
    /\ ch_pc' = "close"
    /\ UNCHANGED <<ch_keepalive, held, client_loop, engine_loop, heartbeat_task,
                   inactivity_task, is_closing, transport_closes, ch_released, peer,
                   client_pending, engine_pending, idle_for, cancelled>>

\* finally lines 1499-1504: if not writer.is_closing(): close, wait_closed
FinallyClose ==
    /\ ch_pc = "close"
    /\ IF is_closing
         THEN ch_pc' = "left" /\ UNCHANGED <<is_closing, transport_closes>>
         ELSE /\ is_closing' = TRUE /\ transport_closes' = Close(transport_closes)
              /\ ch_pc' = "wait_closed"
    /\ UNCHANGED <<ch_keepalive, held, client_loop, engine_loop, heartbeat_task,
                   inactivity_task, ch_engine, ch_released, peer, client_pending,
                   engine_pending, idle_for, cancelled>>

\* finally lines 1501-1505: wait_closed returns or raises a connection error
FinallyClosed ==
    /\ ch_pc = "wait_closed"
    /\ ch_pc' = "left"
    /\ UNCHANGED <<ch_keepalive, held, client_loop, engine_loop, heartbeat_task,
                   inactivity_task, is_closing, transport_closes, ch_engine, ch_released,
                   peer, client_pending, engine_pending, idle_for, cancelled>>

\* check_inactivity lines 1293-1300: the client was quiet for too long
WatchdogCloses ==
    /\ inactivity_task = "running"
    /\ idle_for >= MaxIdle
    /\ is_closing' = TRUE /\ transport_closes' = Close(transport_closes)
    /\ inactivity_task' = "ended"
    /\ UNCHANGED <<ch_keepalive, ch_pc, held, client_loop, engine_loop, heartbeat_task,
                   ch_engine, ch_released, peer, client_pending, engine_pending, idle_for,
                   cancelled>>

\* heartbeat lines 890-896: isready cannot be written to an engine that is
\* gone; the task ends
HeartbeatEnds ==
    /\ heartbeat_task = "running" /\ ch_engine # "alive"
    /\ heartbeat_task' = "ended"
    /\ UNCHANGED <<ch_keepalive, ch_pc, held, client_loop, engine_loop, inactivity_task,
                   is_closing, transport_closes, ch_engine, ch_released, peer, client_pending,
                   engine_pending, idle_for, cancelled>>

\* a watchdog period passes
WatchdogPeriod ==
    /\ ch_pc # "left"
    /\ idle_for < MaxIdle
    /\ idle_for' = idle_for + 1
    /\ UNCHANGED <<ch_keepalive, ch_pc, held, client_loop, engine_loop, heartbeat_task,
                   inactivity_task, is_closing, transport_closes, ch_engine, ch_released,
                   peer, client_pending, engine_pending, cancelled>>

\* the client sends a line
ClientSends ==
    /\ ch_pc # "left"
    /\ peer = "open" /\ ~is_closing /\ client_pending = 0
    /\ client_pending' = 1
    /\ UNCHANGED <<ch_keepalive, ch_pc, held, client_loop, engine_loop, heartbeat_task,
                   inactivity_task, is_closing, transport_closes, ch_engine, ch_released,
                   peer, engine_pending, idle_for, cancelled>>

\* the client closes its end
ClientCloses ==
    /\ ch_pc # "left"
    /\ peer = "open"
    /\ peer' = "eof"
    /\ UNCHANGED <<ch_keepalive, ch_pc, held, client_loop, engine_loop, heartbeat_task,
                   inactivity_task, is_closing, transport_closes, ch_engine, ch_released,
                   client_pending, engine_pending, idle_for, cancelled>>

\* the engine prints a line (an answer, or readyok to the heartbeat)
EnginePrints ==
    /\ ch_pc = "steady"
    /\ ch_engine = "alive" /\ engine_pending = 0
    /\ engine_pending' = 1
    /\ UNCHANGED <<ch_keepalive, ch_pc, held, client_loop, engine_loop, heartbeat_task,
                   inactivity_task, is_closing, transport_closes, ch_engine, ch_released,
                   peer, client_pending, idle_for, cancelled>>

\* the engine dies
EngineDies ==
    /\ ch_pc \in {"uci_init", "await_uciok", "steady"}
    /\ ch_engine = "alive"
    /\ ch_engine' = "exited"
    /\ UNCHANGED <<ch_keepalive, ch_pc, held, client_loop, engine_loop, heartbeat_task,
                   inactivity_task, is_closing, transport_closes, ch_released, peer,
                   client_pending, engine_pending, idle_for, cancelled>>

NextHandler ==
    \/ Acquired /\ UNCHANGED notHandler
    \/ AcquireFails /\ UNCHANGED notHandler
    \/ UciInit /\ UNCHANGED notHandler
    \/ PreUciLine /\ UNCHANGED notHandler
    \/ PreUciWriteFails /\ UNCHANGED notHandler
    \/ PreUciOk /\ UNCHANGED notHandler
    \/ PreUciTimeout /\ UNCHANGED notHandler
    \/ PreUciEof /\ UNCHANGED notHandler
    \/ ClientLoopRead /\ UNCHANGED notHandler
    \/ ClientLoopEnds /\ UNCHANGED notHandler
    \/ EngineLoopForward /\ UNCHANGED notHandler
    \/ EngineLoopWriteFails /\ UNCHANGED notHandler
    \/ EngineLoopEof /\ UNCHANGED notHandler
    \/ GatherReturns /\ UNCHANGED notHandler
    \/ HandlerCancelled /\ UNCHANGED notHandler
    \/ FinallyRelease /\ UNCHANGED notHandler
    \/ FinallyWaited /\ UNCHANGED notHandler
    \/ FinallyClose /\ UNCHANGED notHandler
    \/ FinallyClosed /\ UNCHANGED notHandler
    \/ WatchdogCloses /\ UNCHANGED notHandler
    \/ HeartbeatEnds /\ UNCHANGED notHandler
    \/ WatchdogPeriod /\ UNCHANGED notHandler
    \/ ClientSends /\ UNCHANGED notHandler
    \/ ClientCloses /\ UNCHANGED notHandler
    \/ EnginePrints /\ UNCHANGED notHandler
    \/ EngineDies /\ UNCHANGED notHandler

\* every step of the handler and of its child tasks is taken once it can be,
\* and a running engine answers the isready of the heartbeat; otherwise the
\* client, the engine and whoever cancels the task are free
FairHandler ==
    /\ WF_vars(heartbeat_task = "running" /\ EnginePrints /\ UNCHANGED notHandler)
    /\ WF_vars(UciInit /\ UNCHANGED notHandler)
    /\ WF_vars(ClientLoopRead /\ UNCHANGED notHandler)
    /\ WF_vars(ClientLoopEnds /\ UNCHANGED notHandler)
    /\ WF_vars(EngineLoopForward /\ UNCHANGED notHandler)
    /\ WF_vars(EngineLoopWriteFails /\ UNCHANGED notHandler)
    /\ WF_vars(EngineLoopEof /\ UNCHANGED notHandler)
    /\ WF_vars(GatherReturns /\ UNCHANGED notHandler)
    /\ WF_vars(FinallyRelease /\ UNCHANGED notHandler)
    /\ WF_vars(FinallyWaited /\ UNCHANGED notHandler)
    /\ WF_vars(FinallyClose /\ UNCHANGED notHandler)
    /\ WF_vars(FinallyClosed /\ UNCHANGED notHandler)
    /\ WF_vars(WatchdogCloses /\ UNCHANGED notHandler)
    /\ WF_vars(HeartbeatEnds /\ UNCHANGED notHandler)
    /\ WF_vars(WatchdogPeriod /\ UNCHANGED notHandler)

\* ------------------------------ relay server: sessions relayed to their end
\* the first MaxCopyConns connections, each with a well-formed SESSION line
\* for one session id; what a peer sends before its pipe task exists is read
\* when the task starts, so it is sent then
InitCopy == InitRelay /\ MAX_SESSIONS = NIds

NextCopy ==
    \/ \E c \in 1..MaxCopyConns, id \in {1} : ServerRegisterNew(c, id) /\ UNCHANGED notRelay
    \/ \E c \in 1..MaxCopyConns, id \in {1} : ServerSupersede(c, id) /\ UNCHANGED notRelay
    \/ \E c \in Conn : ServerRegisteredDrained(c) /\ UNCHANGED notRelay
    \/ \E c \in Conn : ServerWake(c) /\ UNCHANGED notRelay
    \/ \E c \in Conn : ServerPairedDrained(c) /\ UNCHANGED notRelay
    \/ \E c \in Conn : PipeRead(c) /\ UNCHANGED notRelay
    \/ \E c \in Conn : PipeEof(c) /\ UNCHANGED notRelay
    \/ \E c \in Conn : PipeDrained(c) /\ UNCHANGED notRelay
    \/ \E c \in Conn : PipeDrainFails(c) /\ UNCHANGED notRelay
    \/ \E c \in Conn : ServerFinish(c) /\ UNCHANGED notRelay
    \/ \E c \in 1..MaxCopyConns, id \in {1} : ClientAttach(c, id) /\ UNCHANGED notRelay
    \/ \E c \in Conn : ClientSignal(c) /\ UNCHANGED notRelay
    \/ \E c \in Conn : pipe[c] # "off" /\ PeerSend(c) /\ UNCHANGED notRelay
    \/ \E c \in Conn : PeerClose(c) /\ UNCHANGED notRelay

\* a pipe task that can go on does: its read returns what has arrived or the
\* end of the stream, its drain returns or raises; a handler whose pipes have
\* ended goes on
FairCopy ==
    WF_vars(/\ \E c \in Conn : \/ PipeRead(c) \/ PipeEof(c) \/ PipeDrained(c)
                                \/ PipeDrainFails(c) \/ ServerFinish(c)
            /\ UNCHANGED notRelay)

\* --------------------------- relay server: stale sweeper and cancellation
InitUpkeep ==
    /\ stale = {}
    /\ cancelled_at = [c \in Conn |-> "no"]

\* the records in the map
InMap == {sessions[i] : i \in SessionIds} \ {None}

\* cleanup_stale_sessions line 215: now - s["registered_at"] > STALE_TIMEOUT
\* has become true of a record
GrowsStale(rec) ==
    /\ rec \in InMap \ stale
    /\ stale' = stale \cup {rec}
    /\ UNCHANGED cancelled_at
    /\ UNCHANGED relayVars

\* mutant: the sweeper takes every record of the map
StaleIdsAll == {i \in SessionIds : sessions[i] # None}

\* cleanup_stale_sessions lines 213-216: the ids of the stale records
StaleIds == {i \in SessionIds : sessions[i] \in stale}

\* cleanup_stale_sessions lines 209-224: one round of the sweeper; every stale
\* record is popped and its writers are closed
Sweep ==
    /\ sessions_lock = None
    /\ StaleIds # {}
    /\ sessions' = [i \in SessionIds |-> IF i \in StaleIds THEN None ELSE sessions[i]]
    /\ closed' = CloseAll(closed, UNION {Legs(sessions[i]) : i \in StaleIds})
    /\ UNCHANGED <<MAX_SESSIONS, sessions_lock, pc, sid, client, paired_event, clientOf,
                   session, peerEof, sent, rd, lines, data, pipe, pipeTo, supersededBy,
                   oldLegs, closedAtReg, pairedSent, pairedAtSup>>
    /\ UNCHANGED ukVars

\* the pipe tasks of a cancelled gather: each gets CancelledError, which
\* pipe() swallows, and closes its writer in its finally
CancelPipes(p, c) == [p EXCEPT ![c] = "done", ![clientOf[c]] = "done"]

\* the task of server handler c is cancelled where it is suspended:
\* in a drain (lines 92, 121) nothing catches CancelledError and nothing is
\* undone; in my_event.wait() (lines 99-105) the id is popped and the writer
\* closed; in gather (lines 126-138) the pipes end and the finally runs
CancelServer(c) ==
    /\ pc[c] \in {"s_reg_drain", "s_wait", "s_paired_drain", "s_pipe"}
    /\ sessions_lock = None
    /\ cancelled_at' = [cancelled_at EXCEPT ![c] = pc[c]]
    /\ pc' = [pc EXCEPT ![c] = "cancelled"]
    /\ IF pc[c] = "s_wait"
         THEN /\ sessions' = [sessions EXCEPT ![sid[c]] = None]
              /\ closed' = CloseAll(closed, {c})
              /\ UNCHANGED pipe
         ELSE IF pc[c] = "s_pipe"
         THEN /\ sessions' = [sessions EXCEPT ![sid[c]] = None]
              /\ closed' = CloseAll(closed, {c, clientOf[c]})
              /\ pipe' = CancelPipes(pipe, c)
         ELSE UNCHANGED <<sessions, closed, pipe>>
    /\ UNCHANGED <<MAX_SESSIONS, sessions_lock, sid, client, paired_event, clientOf,
                   session, peerEof, sent, rd, lines, data, pipeTo, supersededBy,
                   oldLegs, closedAtReg, pairedSent, pairedAtSup>>
    /\ UNCHANGED stale

\* the task of client handler c is cancelled: in the drain of CONNECTED
\* (line 155) the error leaves the handler, in the sleep (lines 163-166) it
\* is swallowed; nothing else is touched
CancelClient(c) ==
    /\ pc[c] \in {"c_conn_drain", "c_sleep"}
    /\ cancelled_at' = [cancelled_at EXCEPT ![c] = pc[c]]
    /\ pc' = [pc EXCEPT ![c] = "cancelled"]
    /\ UNCHANGED <<MAX_SESSIONS, sessions, sessions_lock, sid, client, paired_event,
                   clientOf, session, closed, peerEof, sent, rd, lines, data, pipe,
                   pipeTo, supersededBy, oldLegs, closedAtReg, pairedSent, pairedAtSup>>
    /\ UNCHANGED stale

\* the relay with connections that follow the protocol for one session id,
\* its sweeper, and handlers that may be cancelled
NextUpkeep ==
    \/ NextCopy /\ UNCHANGED ukVars
    \/ \E rec \in Conn : GrowsStale(rec) /\ UNCHANGED notRelayUpkeep
    \/ Sweep /\ UNCHANGED notRelayUpkeep
    \/ \E c \in Conn : CancelServer(c) /\ UNCHANGED notRelayUpkeep
    \/ \E c \in Conn : CancelClient(c) /\ UNCHANGED notRelayUpkeep

\* ------------------------- client_handler: start-up of a bridge, line by line
\* the orders in which a dict with these keys can list them
Orders(keys) ==
    {o \in [1..Cardinality(keys) -> keys] : \A i, j \in DOMAIN o : o[i] = o[j] => i = j}

InitBootVars ==
    /\ bt_pc = "uci"
    /\ bt_next = 1
    /\ bt_engine = "alive"
    /\ stdout_q = <<>>
    /\ bt_emitted = 0
    /\ to_client = <<>>
    /\ bt_closed = FALSE
    /\ bt_peer = "open"
    /\ client_q = <<>>
    /\ bt_sent = 0
    /\ got_uciok = FALSE
    /\ loops_started = FALSE

\* the bridge of an engine with any custom_variables, its engine just acquired
InitBoot ==
    /\ InitBootVars
    /\ engine_customs \in Dicts({"override", "64"})
    /\ CUSTOM_VARIABLES = << >>
    /\ client_cmds = <<>>
    /\ engine_stdin = <<>>
    /\ items \in Orders(DOMAIN engine_customs)

\* process_command lines 1338-1349: the engine gets the line unless it is
\* gone, and then the error is swallowed
Written(line) == IF bt_engine = "alive" THEN Append(engine_stdin, line) ELSE engine_stdin

\* where the start-up goes once position n of the dict is reached
AfterItem(n) == IF n > Len(items) THEN "await_uciok" ELSE "customs"

\* line 1352: await process_command("uci")
UciWrite ==
    /\ bt_pc = "uci"
    /\ engine_stdin' = Written(<<"uci">>)
    /\ bt_pc' = AfterItem(1)
    /\ UNCHANGED <<engine_customs, CUSTOM_VARIABLES, client_cmds>>
    /\ UNCHANGED <<items, bt_next, bt_engine, stdout_q, bt_emitted, to_client, bt_closed,
                   bt_peer, client_q, bt_sent, got_uciok, loops_started>>

\* line 1356: f"setoption name {opt_name} value {opt_value}"
StartupLine(opt_name) == Setoption(opt_name, engine_customs[opt_name])

\* lines 1355-1356: one round of the loop over custom_variables.items()
CustomWrite ==
    /\ bt_pc = "customs"
    /\ engine_stdin' = Written(StartupLine(items[bt_next]))
    /\ bt_next' = bt_next + 1
    /\ bt_pc' = AfterItem(bt_next + 1)
    /\ UNCHANGED <<engine_customs, CUSTOM_VARIABLES, client_cmds>>
    /\ UNCHANGED <<items, bt_engine, stdout_q, bt_emitted, to_client, bt_closed, bt_peer,
                   client_q, bt_sent, got_uciok, loops_started>>

\* mutant: any line of the engine ends the wait
HasUciokAlways(parts) == TRUE

\* "uciok" in decoded
HasUciok(parts) == \E i \in DOMAIN parts : parts[i] \in UciokWords

\* lines 1362-1386: a line of the engine is read, written to the client and
\* tested for uciok; decode() of a line that is not UTF-8 raises, and the
\* drain raises or not once the client is gone
PreUciRead(fails) ==
    /\ bt_pc = "await_uciok"
    /\ stdout_q # <<>>
    /\ fails => bt_peer = "gone"
    /\ stdout_q' = Tail(stdout_q)
    /\ LET out_line == Head(stdout_q)
       IN IF out_line = GarbledOut
          THEN /\ bt_pc' = "finally"
               /\ UNCHANGED <<to_client, got_uciok, loops_started>>
          ELSE /\ to_client' = Append(to_client, out_line)
               /\ IF fails
                  THEN bt_pc' = "finally" /\ UNCHANGED <<got_uciok, loops_started>>
                  ELSE IF HasUciok(out_line)
                  THEN got_uciok' = TRUE /\ bt_pc' = "steady" /\ loops_started' = TRUE
                  ELSE UNCHANGED <<bt_pc, got_uciok, loops_started>>
    /\ UNCHANGED optVars
    /\ UNCHANGED <<items, bt_next, bt_engine, bt_emitted, bt_closed, bt_peer, client_q,
                   bt_sent>>

\* lines 1365-1373: no line within UCIOK_TIMEOUT: kill, writer.close(), return
BootTimeout ==
    /\ bt_pc = "await_uciok"
    /\ stdout_q = <<>> /\ bt_engine = "alive"
    /\ bt_engine' = "killed"
    /\ bt_closed' = TRUE
    /\ bt_pc' = "finally"
    /\ UNCHANGED optVars
    /\ UNCHANGED <<items, bt_next, stdout_q, bt_emitted, to_client, bt_peer, client_q,
                   bt_sent, got_uciok, loops_started>>

\* lines 1374-1375 and 1388-1393: end of the engine's output before uciok
BootEof ==
    /\ bt_pc = "await_uciok"
    /\ stdout_q = <<>> /\ bt_engine = "exited"
    /\ bt_closed' = TRUE
    /\ bt_pc' = "finally"
    /\ UNCHANGED optVars
    /\ UNCHANGED <<items, bt_next, bt_engine, stdout_q, bt_emitted, to_client, bt_peer,
                   client_q, bt_sent, got_uciok, loops_started>>

\* process_client_commands lines 1400-1433 in the steady state: the next line
\* of the client is read and its command handed to process_command
SteadyRead ==
    /\ bt_pc = "steady"
    /\ client_q # <<>>
    /\ client_q' = Tail(client_q)
    /\ client_cmds' = Append(client_cmds, Head(client_q))
    /\ engine_stdin' = Written(Override(Head(client_q)))
    /\ UNCHANGED <<engine_customs, CUSTOM_VARIABLES>>
    /\ UNCHANGED <<bt_pc, items, bt_next, bt_engine, stdout_q, bt_emitted, to_client,
                   bt_closed, bt_peer, bt_sent, got_uciok, loops_started>>

\* lines 1469-1483: both copy loops ended (the client or the engine is gone)
SteadyEnds ==
    /\ bt_pc = "steady"
    /\ bt_peer = "gone" /\ bt_engine # "alive"
    /\ bt_pc' = "finally"
    /\ UNCHANGED optVars
    /\ UNCHANGED <<items, bt_next, bt_engine, stdout_q, bt_emitted, to_client, bt_closed,
                   bt_peer, client_q, bt_sent, got_uciok, loops_started>>

\* finally lines 1484-1505: the writer is closed if it is not closing
BootFinally ==
    /\ bt_pc = "finally"
    /\ bt_closed' = TRUE
    /\ bt_pc' = "left"
    /\ UNCHANGED optVars
    /\ UNCHANGED <<items, bt_next, bt_engine, stdout_q, bt_emitted, to_client, bt_peer,
                   client_q, bt_sent, got_uciok, loops_started>>

\* the engine prints a line
BootEnginePrints(out_line) ==
    /\ bt_engine = "alive" /\ bt_emitted < MaxBootLines
    /\ stdout_q' = Append(stdout_q, out_line)
    /\ bt_emitted' = bt_emitted + 1
    /\ UNCHANGED optVars
    /\ UNCHANGED <<bt_pc, items, bt_next, bt_engine, to_client, bt_closed, bt_peer,
                   client_q, bt_sent, got_uciok, loops_started>>

\* the engine process exits by itself
BootEngineExits ==
    /\ bt_engine = "alive"
    /\ bt_engine' = "exited"
    /\ UNCHANGED optVars
    /\ UNCHANGED <<bt_pc, items, bt_next, stdout_q, bt_emitted, to_client, bt_closed,
                   bt_peer, client_q, bt_sent, got_uciok, loops_started>>

\* the client sends a line, at any time after it connected
BootClientSends(line) ==
    /\ bt_peer = "open" /\ bt_sent < MaxCmds
    /\ client_q' = Append(client_q, line)
    /\ bt_sent' = bt_sent + 1
    /\ UNCHANGED optVars
    /\ UNCHANGED <<bt_pc, items, bt_next, bt_engine, stdout_q, bt_emitted, to_client,
                   bt_closed, bt_peer, got_uciok, loops_started>>

\* the client closes its side
BootClientGoes ==
    /\ bt_peer = "open"
    /\ bt_peer' = "gone"
    /\ UNCHANGED optVars
    /\ UNCHANGED <<bt_pc, items, bt_next, bt_engine, stdout_q, bt_emitted, to_client,
                   bt_closed, client_q, bt_sent, got_uciok, loops_started>>

NextBoot ==
    \/ UciWrite /\ UNCHANGED notOptBoot
    \/ CustomWrite /\ UNCHANGED notOptBoot
    \/ \E fails \in BOOLEAN : PreUciRead(fails) /\ UNCHANGED notOptBoot
    \/ BootTimeout /\ UNCHANGED notOptBoot
    \/ BootEof /\ UNCHANGED notOptBoot
    \/ SteadyRead /\ UNCHANGED notOptBoot
    \/ SteadyEnds /\ UNCHANGED notOptBoot
    \/ BootFinally /\ UNCHANGED notOptBoot
    \/ \E out_line \in BootLines \cup {GarbledOut} : BootEnginePrints(out_line) /\ UNCHANGED notOptBoot
    \/ BootEngineExits /\ UNCHANGED notOptBoot
    \/ \E line \in BootClientLines : BootClientSends(line) /\ UNCHANGED notOptBoot
    \/ BootClientGoes /\ UNCHANGED notOptBoot

\* ------------------------- client_handler: the copy loops, line by line
InitLinesVars ==
    /\ ln_read = 0
    /\ ln_blank = {}
    /\ ln_stdin = <<>>
    /\ ln_engine = "alive"
    /\ ln_written = <<>>
    /\ ln_client_loop = "running"
    /\ ln_engine_loop = "running"
    /\ ln_peer = "open"

\* a bridge that has just entered its steady state, with a new throttler
InitLines == InitLinesVars /\ InitThr

\* mutant: a command overtakes what was written before it
StdinWriteAhead(k) == IF ln_engine = "alive" THEN <<k>> \o ln_stdin ELSE ln_stdin

\* engine_process.stdin.write(...) and drain(): the engine gets the line unless
\* it is gone, when the caller swallows the error
StdinWrite(k) == IF ln_engine = "alive" THEN Append(ln_stdin, k) ELSE ln_stdin

\* process_client_commands lines 1398-1433: the next line of the client is
\* read; an empty command is skipped, any other is handed to process_command
LoopClientLine(blank) ==
    /\ ln_client_loop = "running" /\ ln_peer = "open"
    /\ ln_read < MaxCmds
    /\ ln_read' = ln_read + 1
    /\ ln_blank' = IF blank THEN ln_blank \cup {ln_read + 1} ELSE ln_blank
    /\ ln_stdin' = IF blank THEN ln_stdin ELSE StdinWrite(ln_read + 1)
    /\ UNCHANGED <<ln_engine, ln_written, ln_client_loop, ln_engine_loop, ln_peer>>
    /\ UNCHANGED thrVars

\* process_client_commands lines 1400-1402: end of the client's stream
LoopClientEof ==
    /\ ln_client_loop = "running" /\ ln_peer = "gone"
    /\ ln_client_loop' = "ended"
    /\ UNCHANGED <<ln_read, ln_blank, ln_stdin, ln_engine, ln_written, ln_engine_loop, ln_peer>>
    /\ UNCHANGED thrVars

\* heartbeat lines 887-894: isready is written to the engine between the
\* commands of the client
LoopHeartbeat ==
    /\ ln_engine = "alive"
    /\ Len(ln_stdin) < MaxCmds
    /\ ln_stdin' = StdinWrite(Isready)
    /\ UNCHANGED <<ln_read, ln_blank, ln_engine, ln_written, ln_client_loop, ln_engine_loop,
                   ln_peer>>
    /\ UNCHANGED thrVars

\* process_engine_responses lines 1446-1459: the next line of the engine is
\* read and written to the client if the throttler says so; the drain raises
\* or not once the client is gone, and that ends the loop
LoopEngineLine(line, fails) ==
    /\ ln_engine_loop = "running" /\ ln_engine = "alive"
    /\ fails => ln_peer = "gone"
    /\ ShouldForward(line)
    /\ LET n == Len(out_log')
       IN IF out_log'[n].fwd
          THEN /\ ln_written' = Append(ln_written, n)
               /\ ln_engine_loop' = IF fails THEN "ended" ELSE ln_engine_loop
          ELSE UNCHANGED <<ln_written, ln_engine_loop>>
    /\ UNCHANGED <<ln_read, ln_blank, ln_stdin, ln_engine, ln_client_loop, ln_peer>>

\* process_engine_responses lines 1450-1451: end of the engine's output
LoopEngineEof ==
    /\ ln_engine_loop = "running" /\ ln_engine = "exited"
    /\ ln_engine_loop' = "ended"
    /\ UNCHANGED <<ln_read, ln_blank, ln_stdin, ln_engine, ln_written, ln_client_loop, ln_peer>>
    /\ UNCHANGED thrVars

\* the engine process exits by itself
LoopEngineExits ==
    /\ ln_engine = "alive"
    /\ ln_engine' = "exited"
    /\ UNCHANGED <<ln_read, ln_blank, ln_stdin, ln_written, ln_client_loop, ln_engine_loop,
                   ln_peer>>
    /\ UNCHANGED thrVars

\* the client closes its side
LoopClientGoes ==
    /\ ln_peer = "open"
    /\ ln_peer' = "gone"
    /\ UNCHANGED <<ln_read, ln_blank, ln_stdin, ln_engine, ln_written, ln_client_loop,
                   ln_engine_loop>>
    /\ UNCHANGED thrVars

NextLines ==
    \/ \E blank \in BOOLEAN : LoopClientLine(blank) /\ UNCHANGED notThrLines
    \/ LoopClientEof /\ UNCHANGED notThrLines
    \/ LoopHeartbeat /\ UNCHANGED notThrLines
    \/ \E line \in LoopLines, fails \in BOOLEAN : LoopEngineLine(line, fails) /\ UNCHANGED notThrLines
    \/ LoopEngineEof /\ UNCHANGED notThrLines
    \/ LoopEngineExits /\ UNCHANGED notThrLines
    \/ LoopClientGoes /\ UNCHANGED notThrLines
    \/ throttle_ms > 0 /\ ThrTick /\ UNCHANGED lnVars /\ UNCHANGED notThrLines

\* ------------------ process_engine_responses alone, with its throttler
\* the engine loop of a bridge whose engine stays and whose client listens
InitDefer == InitLines

NextDefer ==
    \/ \E line \in LoopLines : LoopEngineLine(line, FALSE) /\ UNCHANGED notThrLines
    \/ throttle_ms > 0 /\ ThrTick /\ UNCHANGED lnVars /\ UNCHANGED notThrLines

\* time passes; when the engine prints is up to the engine
FairDefer == WF_vars(throttle_ms > 0 /\ ThrTick /\ UNCHANGED lnVars /\ UNCHANGED notThrLines)

\* ------------------- the stale sweeper over the records of several ids
\* the relay with room for every id, before the sweeper's first round
InitSweep == InitRelay /\ MAX_SESSIONS = NIds /\ InitUpkeep

\* servers register under any id, clients attach, sessions are paired and
\* end; records grow old and the sweeper runs
NextSweep ==
    \/ \E c \in Conn, id \in SessionIds : ServerRegisterNew(c, id) /\ UNCHANGED notRelay
    \/ \E c \in Conn : ServerRegisteredDrained(c) /\ UNCHANGED notRelay
    \/ \E c \in Conn, id \in SessionIds : ClientAttach(c, id) /\ UNCHANGED notRelay
    \/ \E c \in Conn : ClientSignal(c) /\ UNCHANGED notRelay
    \/ \E c \in Conn : ServerWake(c) /\ UNCHANGED notRelay
    \/ \E c \in Conn : ServerPairedDrained(c) /\ UNCHANGED notRelay
    \/ \E c \in Conn : PipeEof(c) /\ UNCHANGED notRelay
    \/ \E c \in Conn : ServerFinish(c) /\ UNCHANGED notRelay
    \/ \E rec \in Conn : GrowsStale(rec) /\ UNCHANGED notRelayUpkeep
    \/ Sweep /\ UNCHANGED notRelayUpkeep

\* ---------------------- client_handler: the connection semaphore
\* _init_from_config line 267; validate_config wants max_connections >= 1
InitSem ==
    /\ MAX_CONNECTIONS \in 1..MaxLimit
    /\ sem = [b \in Bridge |-> None]
    /\ sem_pc = [b \in Bridge |-> "new"]

\* line 1306: sem = asyncio.Semaphore(MAX_CONNECTIONS), a local of the call
SemCreate(b) ==
    /\ sem_pc[b] = "new"
    /\ sem' = [sem EXCEPT ![b] = MAX_CONNECTIONS]
    /\ sem_pc' = [sem_pc EXCEPT ![b] = "created"]
    /\ UNCHANGED MAX_CONNECTIONS

\* line 1308: async with sem, entered once the value is positive
SemAcquire(b) ==
    /\ sem_pc[b] = "created"
    /\ sem[b] > 0
    /\ sem' = [sem EXCEPT ![b] = @ - 1]
    /\ sem_pc' = [sem_pc EXCEPT ![b] = "inside"]
    /\ UNCHANGED MAX_CONNECTIONS

\* lines 1313-1327: the engine of the bridge is running
SemEngineStarted(b) ==
    /\ sem_pc[b] = "inside"
    /\ sem_pc' = [sem_pc EXCEPT ![b] = "holding"]
    /\ UNCHANGED <<MAX_CONNECTIONS, sem>>

\* the end of the async with block (after the finally of line 1484): the
\* handler leaves, with or without an engine, and its semaphore is released
SemRelease(b) ==
    /\ sem_pc[b] \in {"inside", "holding"}
    /\ sem' = [sem EXCEPT ![b] = @ + 1]
    /\ sem_pc' = [sem_pc EXCEPT ![b] = "left"]
    /\ UNCHANGED MAX_CONNECTIONS

NextSem ==
    \/ \E b \in Bridge : SemCreate(b) /\ UNCHANGED notSem
    \/ \E b \in Bridge : SemAcquire(b) /\ UNCHANGED notSem
    \/ \E b \in Bridge : SemEngineStarted(b) /\ UNCHANGED notSem
    \/ \E b \in Bridge : SemRelease(b) /\ UNCHANGED notSem

\* every handler and pipe that can go on does, and the sweeper runs; when
\* peers connect and when records grow old is up to the world
FairSweep ==
    /\ WF_vars(/\ \E c \in Conn : \/ ServerRegisteredDrained(c) \/ ClientSignal(c)
                                  \/ ServerWake(c) \/ ServerPairedDrained(c)
                                  \/ PipeEof(c) \/ ServerFinish(c)
               /\ UNCHANGED notRelay)
    /\ WF_vars(Sweep /\ UNCHANGED notRelayUpkeep)

\* ------------------------------------------------------------- relay claims
ServerRunning(c) == pc[c] \in {"s_reg_drain", "s_wait", "s_paired_drain", "s_pipe"}

\* C1: once the handler of a superseded record has finished, the session map
\* still holds the record of the registration that replaced it, as long as
\* that newer handler runs and has not been superseded itself.
C1_OldHandlerKeepsReplacement ==
    \A old \in Conn :
        LET new == supersededBy[old]
        IN (new # None /\ pc[old] = "done" /\ ServerRunning(new)
                /\ supersededBy[new] = None)
              => sessions[sid[new]] = new

\* C5: on a server leg REGISTERED comes before PAIRED; PAIRED is written only
\* when the client leg the handler took is installed in the handler's own
\* record and has been sent CONNECTED; and no byte is read from or copied to
\* a leg unless PAIRED was written to the server leg of that pairing.
C5_RegisteredPairedOrder ==
    /\ \A s \in Conn : \A i \in DOMAIN lines[s] :
          lines[s][i] = "PAIRED" => \E j \in 1..(i - 1) : lines[s][j] = "REGISTERED"
    /\ \A s \in Conn : pairedSent[s] =>
          /\ "PAIRED" \in Range(lines[s])
          /\ clientOf[s] # None
          /\ session[clientOf[s]] = s
          /\ "CONNECTED" \in Range(lines[clientOf[s]])
    /\ \A w \in Conn : (data[w] # <<>> \/ rd[w] > 0) =>
          \E s \in Conn : pairedSent[s] /\ w \in {s, clientOf[s]}

C5_Witness ==
    \E s \in Conn : pairedSent[s] /\ data[clientOf[s]] # <<>> /\ data[s] # <<>>

\* C6: when a registration supersedes a record, every writer of the old
\* record is closed by the time REGISTERED is written to the new server, and
\* from the supersession on the old handler never writes PAIRED.
C6_SupersessionClosesOld ==
    /\ \A c \in Conn : "REGISTERED" \in Range(lines[c]) => oldLegs[c] \subseteq closedAtReg[c]
    /\ \A c \in Conn : oldLegs[c] # {} => "REGISTERED" \in Range(lines[c])
    /\ \A old \in Conn : supersededBy[old] # None => pairedSent[old] = pairedAtSup[old]

C6_Witness ==
    \E old \in Conn :
        /\ supersededBy[old] # None /\ pc[old] = "done"
        /\ ~pairedSent[old] /\ client[old] # None
        /\ Cardinality(oldLegs[supersededBy[old]]) = 2

\* C7: what the relay has written to a leg is, byte for byte, an initial part
\* of what it has read from the other leg, in both directions; and a copy
\* loop with bytes waiting in its reader can always take its next step,
\* whatever the state of the loop of the other direction.
C7_PipePrefix ==
    /\ \A w \in Conn : data[w] # <<>> => \E r \in Conn : pipeTo[r] = w
    /\ \A r \in Conn : pipeTo[r] # None =>
          LET d == data[pipeTo[r]]
          IN /\ Len(d) <= rd[r]
             /\ \A i \in DOMAIN d : d[i] = i
    /\ \A s \in Conn : pc[s] = "s_pipe" =>
          \A r \in {s, clientOf[s]} :
              (pipe[r] \notin {"drain", "drain_err", "done"} /\ rd[r] < sent[r]) => ENABLED PipeRead(r)

C7_Witness ==
    \E s \in Conn :
        /\ pc[s] = "s_pipe"
        /\ \/ Len(data[s]) = 1 /\ Len(data[clientOf[s]]) = 1
           \/ Len(data[clientOf[s]]) = 2 /\ pipe[clientOf[s]] = "read"

\* --------------------------------------------------- session manager claims
\* C2: no two bridges hold the same engine process at the same time.
C2_OneBridgePerProcess ==
    \A b1 \in Bridge, b2 \in Bridge :
        (b1 # b2 /\ bpc[b1] = "holding" /\ bpc[b2] = "holding")
            => engine_process[b1] # engine_process[b2]

\* C3: a get_or_create that finds the name registered with a live process
\* returns that very process with reattached = true and spawns nothing; one
\* that finds it registered with an exited process removes the entry and
\* returns a process spawned by this call with reattached = false.
C3_ReattachOrRespawn ==
    /\ \A b \in Bridge : bpc[b] = "holding" =>
          /\ reattached[b] <=> (lookupProc[b] # None /\ lookupAlive[b])
          /\ reattached[b] => (engine_process[b] = lookupProc[b] /\ procState[b] = "none")
          /\ ~reattached[b] => (engine_process[b] = b /\ lookupProc[b] # b
                                   /\ procState[b] # "none")
    /\ \A b \in Bridge : (bpc[b] = "spawning" /\ lookupProc[b] # None) =>
          /\ ~lookupAlive[b]
          /\ sm_sessions[bname[b]].process # lookupProc[b]

\* get_or_create, release, get_or_create: the second bridge holds the process
\* the first one spawned and released, and the expiry was cancelled
C3_Witness ==
    \E b1 \in Bridge, b2 \in Bridge :
        /\ b1 # b2 /\ bpc[b1] = "closed" /\ task[b1] = "cancelled"
        /\ bpc[b2] = "holding" /\ reattached[b2] /\ engine_process[b2] = b1
        /\ procState[b1] = "alive"

\* C4: from a release that leaves the session warm until the keepalive
\* interval is over (and no bridge has taken the session again) the name
\* stays registered and its process is not terminated; and when an expiry
\* fires, the name's entry is gone and its process is terminated.
C4_WarmUntilExpiry ==
    [][ /\ \A n \in EngineNames :
              (releasedAt'[n] # -1 /\ now' < releasedAt'[n] + keepalive) =>
                  /\ sm_sessions'[n].process # None
                  /\ procState'[sm_sessions'[n].process] \notin {"terminating", "terminated"}
        /\ \A t \in Task :
              (task[t] = "sleeping" /\ task'[t] \in {"waiting", "done"}) =>
                  /\ sm_sessions'[bname[t]].process = None
                  /\ LET p == sm_sessions[bname[t]].process
                     IN p # None => procState'[p] # "alive"
      ]_vars

\* ------------------------------------------------------ trust gate claims
\* the address is on no trusted list of the configuration
Untrusted(ip) ==
    /\ ip \notin config.trusted_sources
    /\ \A sn \in config.trusted_subnets : Subnet24(ip) # sn

\* the connection was turned away at the trust gate
TurnedAway(g) ==
    /\ gpc[g] # "new"
    /\ config.enable_trusted_sources /\ ~config.enable_auto_trust
    /\ Untrusted(client_ip[g])

\* the client's line carries the configured secret of its method
RightSecret(msg) ==
    \/ msg.cmd = "AUTH" /\ msg.arg = "tok" /\ config.auth_token = "tok"
    \/ msg.cmd = "PSK_AUTH" /\ msg.arg = "psk" /\ config.psk_key = "psk"

CredentialsConfigured ==
    config.auth_method # "none" /\ (config.auth_token # "" \/ config.psk_key # "")

C8_Core ==
    \A g \in Peer :
        /\ acquired[g] =>
              /\ \/ ~config.enable_trusted_sources
                 \/ ~Untrusted(client_ip[g])
                 \/ client_ip[g] \in auto_trusted_ips
              /\ CredentialsConfigured =>
                    (RightSecret(reply[g]) /\ Last(glines[g]) = "AUTH_OK")
        /\ TurnedAway(g) => (recorded[g] = 1 /\ ~acquired[g] /\ glines[g] = <<>>)
        /\ (gpc[g] = "closed" /\ ~TurnedAway(g)) => ~acquired[g]

C9_OneBlockPerCrossing ==
    config.enable_firewall_ip_blocking =>
        \A ip \in IPs :
            /\ block_ip_calls[ip] * (config.max_connection_attempts + 1) <= appends[ip]
            /\ clears[ip] <= block_ip_calls[ip]
            /\ block_ip_calls[ip] <= clears[ip] + 1

\* C10: after every update of a ledger no timestamp older than
\* connection_attempt_period is left in the entry of any address or subnet.
C10_NoStaleTimestamps ==
    [][ (connection_attempts' # connection_attempts
            \/ subnet_connection_attempts' # subnet_connection_attempts) =>
          /\ \A ip \in IPs : \A i \in DOMAIN connection_attempts'[ip] :
                now' - connection_attempts'[ip][i] <= config.connection_attempt_period
          /\ \A sn \in Subnets : \A i \in DOMAIN subnet_connection_attempts'[sn] :
                now' - subnet_connection_attempts'[sn][i] <= config.connection_attempt_period
      ]_vars

\* ------------------------------------------------- option override claims
\* the place of the word `value` that ends the option name, 0 when the line
\* is not of the form `setoption name O value V`
ValueAt(line) ==
    IF Len(line) >= 5 /\ line[1] = "setoption" /\ line[2] = "name"
          /\ \E i \in 4..(Len(line) - 1) : line[i] = "value"
    THEN CHOOSE i \in 4..(Len(line) - 1) :
            line[i] = "value" /\ \A j \in 4..(i - 1) : line[j] # "value"
    ELSE 0

\* what the override policy asks to be written for a client line
Policy(line) ==
    IF ValueAt(line) = 0 THEN line
    ELSE LET O == SubSeq(line, 3, ValueAt(line) - 1)
         IN IF O \in DOMAIN engine_customs
            THEN IF engine_customs[O] = "override" THEN line
                 ELSE <<"setoption", "name">> \o O \o <<"value", engine_customs[O]>>
            ELSE IF O \in DOMAIN CUSTOM_VARIABLES
                 THEN <<"setoption", "name">> \o O \o <<"value", CUSTOM_VARIABLES[O]>>
                 ELSE line

\* C11: every client line is written to the engine as the override policy
\* asks: a line `setoption name O value V` unchanged when the engine-local
\* map has O = override, with the engine-local value when it has another
\* one, with the global value when only the global map has O, and unchanged
\* otherwise; every other line unchanged.
C11_OverridePolicy ==
    /\ Len(engine_stdin) = Len(client_cmds)
    /\ \A k \in DOMAIN client_cmds : engine_stdin[k] = Policy(client_cmds[k])

\* ------------------------------------------------------- throttler claims
\* the depth a line shows, read off the line itself
DepthShown(line) ==
    IF \E i \in 1..(Len(line) - 1) : line[i] = "depth" /\ line[i + 1] \in {"1", "2", "3"}
    THEN LET i == CHOOSE i \in 1..(Len(line) - 1) :
                     /\ line[i] = "depth" /\ line[i + 1] \in {"1", "2", "3"}
                     /\ \A j \in 1..(i - 1) : ~(line[j] = "depth" /\ line[j + 1] \in {"1", "2", "3"})
         IN CASE line[i + 1] = "1" -> 1 [] line[i + 1] = "2" -> 2 [] line[i + 1] = "3" -> 3
    ELSE NoDepth

InfoLine(line) == Len(line) >= 2 /\ line[1] = "info"

\* the calls before call k that saw an info line showing a depth / that forwarded an info line
DepthCallsBefore(k) ==
    {j \in 1..(k - 1) : InfoLine(out_log[j].line) /\ DepthShown(out_log[j].line) # NoDepth}

InfoForwardsBefore(k) == {j \in 1..(k - 1) : InfoLine(out_log[j].line) /\ out_log[j].fwd}

Latest(S) == CHOOSE j \in S : \A i \in S : i <= j

\* the depth last observed before call k
DepthBefore(k) ==
    IF DepthCallsBefore(k) = {} THEN NoDepth
    ELSE DepthShown(out_log[Latest(DepthCallsBefore(k))].line)

\* info line k shows a depth other than the one last observed
NewDepth(k) ==
    DepthShown(out_log[k].line) # NoDepth /\ DepthShown(out_log[k].line) # DepthBefore(k)

\* at call k the interval has passed since the last forwarded info line
Apart(k) ==
    \/ InfoForwardsBefore(k) = {}
    \/ out_log[k].t - out_log[Latest(InfoForwardsBefore(k))].t >= throttle_ms

\* C12: with interval <= 0 every line is forwarded; otherwise a non-info line
\* is always forwarded, an info line is forwarded exactly when it shows a
\* depth other than the last observed one or arrives at least the interval
\* after the last forwarded info line (so strictly increasing depths are all
\* forwarded and constant-depth lines only when the interval apart); and the
\* pending slot is empty after a forward and holds the line of the latest
\* call after a deferral.
C12_ThrottleRules ==
    /\ \A k \in DOMAIN out_log :
          LET r == out_log[k]
          IN /\ throttle_ms <= 0 => r.fwd
             /\ ~InfoLine(r.line) => r.fwd
             /\ (throttle_ms > 0 /\ InfoLine(r.line)) => (r.fwd <=> (NewDepth(k) \/ Apart(k)))
    /\ (throttle_ms > 0 /\ out_log # <<>>) =>
          LET r == out_log[Len(out_log)]
          IN pending_info = IF r.fwd THEN <<>> ELSE r.line
    /\ throttle_ms <= 0 => pending_info = <<>>

\* depth 1 forwarded, a second depth-1 line deferred, a third one forwarded
\* once the interval is over
C12_Witness ==
    /\ Len(out_log) = 3
    /\ \A k \in 1..3 : DepthShown(out_log[k].line) = 1
    /\ out_log[1].fwd /\ ~out_log[2].fwd /\ out_log[3].fwd
    /\ out_log[3].t - out_log[1].t = throttle_ms

\* ------------------------------------------- relay first-line claims
\* the records in the session map
Records == {i \in SessionIds : sessions[i] # None}

\* connection c takes the server role for an id in this step
Registers(c) == pc[c] = "new" /\ pc'[c] \in {"s_reg_drain", "s_err_drain"}

\* C17: the session map never holds more records than MAX_SESSIONS; a
\* registration for an id without a record while the map is full gets
\* `ERROR max sessions reached`, installs nothing and is closed once the line
\* is drained; a registration for an id with a record replaces that record,
\* full map or not.
C17_MapBounded ==
    /\ [](/\ Cardinality(Records) <= MAX_SESSIONS
          /\ \A c \in Conn : (pc[c] = "done" /\ lines[c] = <<"ERROR max sessions reached">>)
                => closed[c])
    /\ [][\A c \in Conn : Registers(c) =>
            IF sessions[sid'[c]] = None /\ Cardinality(Records) >= MAX_SESSIONS
            THEN /\ lines'[c] = <<"ERROR max sessions reached">>
                 /\ sessions' = sessions
                 /\ pc'[c] = "s_err_drain"
            ELSE /\ lines'[c] = <<"REGISTERED">>
                 /\ sessions' = [sessions EXCEPT ![sid'[c]] = c]
                 /\ pc'[c] = "s_reg_drain"]_vars

\* with the map full one registration has been refused and closed, and
\* another has replaced the record of its id
C17_Witness ==
    \E c \in Conn, d \in Conn, old \in Conn :
        /\ Cardinality(Records) = MAX_SESSIONS
        /\ lines[c] = <<"ERROR max sessions reached">> /\ closed[c] /\ pc[c] = "done"
        /\ supersededBy[old] = d /\ sessions[sid[d]] = d /\ d > c

\* connection c is turned away on its first line in this step
TurnedAwayAtFirstLine(c) ==
    pc[c] = "new" /\ pc'[c] \in {"c_err_drain", "p_closed", "x_closed"}

\* connection c has been turned away on its first line
Refused(c) == pc[c] \in {"c_err_drain", "p_closed", "x_closed"}
                 \/ (pc[c] = "done" /\ lines[c] = <<"ERROR unknown session">>)

Verdicts(g) == {i \in DOMAIN glines[g] : glines[g][i] \in {"AUTH_OK", "AUTH_FAIL"}}

\* the handshake of the connection is over
Answered(g) == reply[g] # NoMsg

C14_Greeting ==
    \A g \in Peer : gpc[g] # "new" =>
        IF config.auth_method = "none" \/ (config.auth_token = "" /\ config.psk_key = "")
        THEN glines[g] = <<>> /\ gpc[g] = "engine" /\ acquired[g]
        ELSE /\ glines[g] # <<>>
             /\ (config.auth_token # "" /\ config.psk_key = "") => glines[g][1] = "AUTH_REQUIRED"
             /\ (config.auth_token # "" /\ config.psk_key # "") =>
                   glines[g][1] = "AUTH_REQUIRED token,psk"
             /\ \A i \in DOMAIN glines[g] : i > 1 => glines[g][i] \notin
                   {"AUTH_REQUIRED", "AUTH_REQUIRED token,psk", "AUTH_REQUIRED psk"}

\* both secrets configured: the greeting names both methods
C14_Witness ==
    \E g \in Peer :
        /\ config.auth_token = "tok" /\ config.psk_key = "psk"
        /\ glines[g] = <<"AUTH_REQUIRED token,psk", "AUTH_OK">>

\* ---------------------------------------------------- multiplex claims
\* the number of registered engines
NReg == Len(ALL_ENGINES)

AskedList(g) == first_line[g] = Line("ENGINE_LIST", 0)

\* the line consumed by the negotiation was not an engine-list request, or
\* the line after the list was not a selection
FellToDefault(g) ==
    \/ first_line[g] \notin {NoLine, Line("ENGINE_LIST", 0)}
    \/ sel_line[g] # NoLine /\ sel_line[g].cmd # "SELECT_ENGINE"

\* the lines the negotiation took from the client's stream
Consumed(g) == IF AskedList(g) /\ sel_line[g] # NoLine THEN {1, 2} ELSE {1}

NotForwarded(g) ==
    \A i \in DOMAIN engine_in[g] :
        IF engine_in[g][i].src = "client"
        THEN engine_in[g][i].idx \notin Consumed(g)
        ELSE i = 1 /\ engine_in[g][i].line = Line("uci", 0)

\* C15: after ENGINE_LIST the server writes one ENGINE line per registered
\* engine in ascending name order and then ENGINES_END; a following
\* SELECT_ENGINE with a registered name is answered ENGINE_SELECTED and the
\* bridge runs exactly that engine; with an unregistered name it is answered
\* `ENGINE_ERROR unknown engine`, the connection is closed and no bridge runs.
C15_ListAndSelect ==
    \A g \in MuxConn : AskedList(g) =>
        /\ Len(mlines[g]) >= NReg + 1
        /\ \A i \in 1..NReg : mlines[g][i].cmd = "ENGINE"
        /\ {mlines[g][i].arg : i \in 1..NReg} = Range(ALL_ENGINES)
        /\ \A i \in 1..NReg, j \in 1..NReg : i < j => mlines[g][i].arg < mlines[g][j].arg
        /\ mlines[g][NReg + 1] = Line("ENGINES_END", 0)
        /\ sel_line[g].cmd = "SELECT_ENGINE" =>
              IF sel_line[g].arg \in Range(ALL_ENGINES)
              THEN /\ mlines[g] = SubSeq(mlines[g], 1, NReg + 1) \o <<Line("ENGINE_SELECTED", 0)>>
                   /\ mpc[g] = "bridge" /\ bridge_engine[g] = sel_line[g].arg
              ELSE /\ mlines[g] = SubSeq(mlines[g], 1, NReg + 1)
                                     \o <<Line("ENGINE_ERROR unknown engine", 0)>>
                   /\ mpc[g] = "closed" /\ bridge_engine[g] = None /\ engine_in[g] = <<>>
        /\ sel_line[g] = NoLine => Len(mlines[g]) = NReg + 1

\* a registry inserted out of name order is listed, and the engine selected
\* is not the default one
C15_Witness ==
    \E g \in MuxConn :
        /\ NReg = 2 /\ ALL_ENGINES[1] > ALL_ENGINES[2]
        /\ AskedList(g) /\ mpc[g] = "bridge"
        /\ bridge_engine[g] = ALL_ENGINES[2] /\ default_engine = None

HandedOff(k) == \E i \in DOMAIN handoffs : handoffs[i].conn = k

\* C19: a connection is handed to the bridge (multiplex_handler for the
\* multiplex label, client_handler otherwise) only when exactly `SESSION <id>
\* server` was written to it, then REGISTERED and then PAIRED were read from
\* it; the configuration passed has the trust filter off; a connection on
\* which either read gave anything else is never handed off.
C19_HandOffAfterHandshake ==
    /\ \A i \in DOMAIN handoffs :
          /\ wire[handoffs[i].conn] =
                <<Wrote("SESSION <id> server"), Got("REGISTERED"), Got("PAIRED")>>
          /\ handoffs[i].config.enable_trusted_sources = FALSE
          /\ handoffs[i].handler =
                (IF listener_engine = "_multiplex" THEN "multiplex_handler" ELSE "client_handler")
          /\ \A j \in DOMAIN handoffs : handoffs[j].conn = handoffs[i].conn => i = j
    /\ \A k \in DOMAIN wire :
          /\ (Len(wire[k]) >= 2 /\ wire[k][2] # Got("REGISTERED")) => ~HandedOff(k)
          /\ (Len(wire[k]) >= 3 /\ wire[k][3] # Got("PAIRED")) => ~HandedOff(k)
          /\ Len(wire[k]) = 3 /\ wire[k][3] = Got("PAIRED") => HandedOff(k)

\* with the trust filter on in the server's configuration a second connection
\* is handed off after a first one was refused registration
C19_Witness ==
    /\ listener_config.enable_trusted_sources
    /\ Len(wire) = 2 /\ ~HandedOff(1) /\ HandedOff(2)
    /\ Len(wire[1]) = 2 /\ lpc = "bridge"

\* C20: relay_listener loops until it is cancelled: when the bridge returns
\* and when the keepalive ceiling passes (the connection having been closed)
\* it dials again at once; after a dial or registration error it pauses and
\* the pause leads to the next dial; every connection opened starts with
\* `SESSION <id> server`; it stops only when cancelled, and then never dials,
\* writes or hands off again.
C20_RedialUntilCancelled ==
    /\ [][/\ lpc' = "cancelled" => cancel_requested'
          /\ lpc = "cancelled" =>
                (lpc' = "cancelled" /\ dials' = dials /\ wire' = wire /\ handoffs' = handoffs)
          /\ (lpc = "bridge" /\ ~cancel_requested') => lpc' \in {"bridge", "dial", "pause"}
          /\ (lpc = "pairing" /\ lpc' = "dial") => Current \in writer_closed'
          /\ (lpc \in {"dial", "registering", "pairing"} /\ ~cancel_requested')
                => lpc' \in {"dial", "registering", "pairing", "bridge", "pause"}
          /\ (lpc = "pause" /\ ~cancel_requested') => lpc' \in {"pause", "dial"}
          /\ dials' # dials =>
                (lpc = "dial" /\ (lpc' = "registering" =>
                    wire' = Append(wire, <<Wrote("SESSION <id> server")>>)))]_vars
    /\ (lpc = "pause") ~> (lpc \in {"dial", "cancelled"})

\* the listener has redialled after a refused registration, after a keepalive
\* expiry and after a bridge, and is registering for the fourth time
C20_Witness ==
    /\ dials = MaxDials /\ Len(wire) = MaxDials /\ lpc = "registering"
    /\ 1 \in writer_closed /\ HandedOff(2) /\ ~cancel_requested

\* -------------------------------------------------------- heartbeat claims
\* C21: the heartbeat writes nothing but `isready\n`, to the engine's
\* standard input only and never to the client, one write per interval
\* slept; a failed write ends the task without an exception leaving it and
\* without another write.
C21_HeartbeatWrites ==
    /\ [](/\ \A i \in DOMAIN hb_stdin : hb_stdin[i].text = "isready\n"
          /\ hb_client = <<>>
          /\ hb_stdin # <<>> => hb_stdin[1].at >= hb_interval
          /\ \A i \in DOMAIN hb_stdin :
                i > 1 => hb_stdin[i].at - hb_stdin[i - 1].at >= hb_interval
          /\ hpc # "raised")
    /\ [][/\ hpc \in {"stopped", "cancelled"} => UNCHANGED hbVars
          /\ (stdin_broken /\ hpc' # hpc /\ hpc' # "cancelled") => hpc' = "stopped"]_vars

\* two beats reached the engine, the third found the pipe broken and the
\* task ended
C21_Witness ==
    /\ Len(hb_stdin) = 3 /\ hpc = "stopped" /\ stdin_broken

\* --------------------------------------------------------- shutdown claims
\* the processes the registry holds or has held that still run
Running == {p \in Proc : procState[p] = "alive"}

\* C22: when shutdown_all returns the registry is empty and no process that
\* was given a session is still running, whatever the bridges did meanwhile.
C22_ShutdownAllEmpties ==
    [][(main_pc = "shutdown_all" /\ main_pc' = "gather") =>
          /\ \A n \in EngineNames : sm_sessions[n] = NoEntry
          /\ Running = {}]_vars

\* C24: when the graceful shutdown completes, shutdown_all has run, every
\* task main started has been cancelled and awaited, no engine process of a
\* bridge is still running and the PID file is gone.
C24_ShutdownLeavesNothing ==
    main_pc = "completed" =>
        /\ names = {} /\ sd_waiting = None
        /\ \A k \in OrchTasks : task_state[k] = "finished"
        /\ ~pid_file
        /\ Running = {}

\* ------------------------------------------------------ resolve_ports claims
Resolved == {n \in PortEngine : n < rp_next}

\* C23: after resolve_ports every descriptor has a port on which bind()
\* succeeded when it was probed and no two descriptors have the same port;
\* resolve_ports fails only when no port of the probed range was free and
\* unclaimed.
C23_PortsDistinctAndFree ==
    /\ \A n \in Resolved : details_port[n] \in free_at_probe[n]
    /\ \A n, m \in Resolved : n # m => details_port[n] # details_port[m]
    /\ rp_raised => free_at_probe[rp_next] \ claimed = {}

\* resolve_ports is through although two descriptors were configured with one
\* port and a configured port was occupied
C23_Witness ==
    /\ rp_next = NPortEngines + 1
    /\ \E n, m \in PortEngine : n # m /\ configured[n] = configured[m]
    /\ \E n \in PortEngine : configured[n] \notin free_at_probe[n]

\* ---------------------------------------------- expiry against reattach claim
\* the expiry task t ends its sleep and runs _terminate in this step
Fires(t) == task[t] = "sleeping" /\ task'[t] \in {"waiting", "done"}

\* C25: while a bridge holds a process that get_or_create returned with
\* reattached = true, no expiry scheduled before that return terminates the
\* process.
C25_ReattachedOutlivesExpiry ==
    [][\A b \in Bridge, t \in Task :
          (bpc[b] = "holding" /\ reattached[b] /\ t \in pending_at[b] /\ Fires(t))
             => procState'[engine_process[b]] = procState[engine_process[b]]]_vars

C26_WitnessWatchdog ==
    /\ ch_pc = "left" /\ held /\ ~cancelled
    /\ inactivity_task = "ended" /\ client_loop = "ended" /\ engine_loop = "ended"

\* one of the peers of a bridge in its steady state has closed
PeerClosed == ch_pc = "steady" /\ (peer = "eof" \/ ch_engine = "exited")

\* C27: once a peer of a bridge in its steady state has closed, the bridge
\* unwinds: the handler leaves, whatever the other peer does.
C27_UnwindsWhenPeerCloses == PeerClosed ~> ch_pc = "left"

\* ------------------------------------------------- relay byte-copy liveness
\* the byte copy of server handler c runs and one of its legs is at end of
\* stream, or one of its pipes has failed or ended
CopyEnding(c) ==
    /\ pc[c] = "s_pipe"
    /\ \/ Eof(c) \/ Eof(clientOf[c])
       \/ pipe[c] \in {"drain_err", "done"} \/ pipe[clientOf[c]] \in {"drain_err", "done"}

\* both pipes of server handler c have stopped, both writers are closed and
\* the record of c is not in the map
CopyOver(c) ==
    /\ pc[c] = "done"
    /\ pipe[c] = "done" /\ pipe[clientOf[c]] = "done"
    /\ closed[c] /\ closed[clientOf[c]]
    /\ sessions[sid[c]] # c

Copying(rec) ==
    /\ pairedSent[rec] /\ pc[rec] = "s_pipe"
    /\ pipe[rec] # "done" \/ pipe[clientOf[rec]] # "done"
    /\ sessions[sid[rec]] = rec

\* C28: a record for which PAIRED was written and whose byte copy is
\* running leaves the map only in a step of its own handler (a registration
\* that replaces it under the same id apart).
C28_PairedRemovedByOwnHandler ==
    [][\A rec \in Conn :
          (Copying(rec) /\ sessions'[sid[rec]] # rec)
             => (pc'[rec] # pc[rec] \/ sessions'[sid[rec]] # None)]_vars

\* the handler of c is cancelled in this step
CancelledNow(c) == cancelled_at[c] = "no" /\ cancelled_at'[c] # "no"

\* C29: a cancelled server-role handler leaves its writer closed, the client
\* writer closed if a client was attached, and no record of its own in the
\* map; a cancelled client-role handler changes neither the map nor the
\* records nor the pipes.
C29_CancelCleansUp ==
    [][\A c \in Conn :
          CancelledNow(c) =>
             IF pc[c] \in {"c_conn_drain", "c_sleep"}
               THEN UNCHANGED <<sessions, client, paired_event, pipe, closed>>
               ELSE /\ closed'[c]
                    /\ client[c] # None => closed'[client[c]]
                    /\ \A i \in SessionIds : sessions'[i] # c]_vars

\* ------------------------------------------------- bridge start-up claims
\* the setoption lines of the entries of custom_variables with a literal
\* value, in the order of the dict
RECURSIVE LiteralLines(_)
LiteralLines(n) ==
    IF n = 0 THEN <<>>
    ELSE LET rest == LiteralLines(n - 1)
         IN IF engine_customs[items[n]] = "override" THEN rest
            ELSE Append(rest, Setoption(items[n], engine_customs[items[n]]))

\* the start-up writes are over and the engine was there for all of them
StartupDone == bt_pc = "await_uciok" /\ bt_engine = "alive"

\* C31: at the end of the start-up writes the engine has received `uci` and
\* then one setoption line for each entry of its override map whose value is a
\* literal, and no line for an entry whose value is the override sentinel.
C31_StartupSetoptions ==
    StartupDone => engine_stdin = <<<<"uci">>>> \o LiteralLines(Len(items))

\* the line holds uciok somewhere
UciokLine(parts) == \E i \in DOMAIN parts : parts[i] \in UciokWords

RECURSIVE AnyUciok(_)
AnyUciok(ls) ==
    IF ls = <<>> THEN FALSE ELSE UciokLine(Head(ls)) \/ AnyUciok(Tail(ls))

\* the start-up has ended without uciok
BootGaveUp == bt_pc \in {"finally", "left"} /\ ~got_uciok

\* C32: the bridge is in its steady state only after a line with uciok was
\* seen; before that no client line is read or written to the engine; the
\* lines of the engine up to and with the uciok line are all written to the
\* client; a timeout or the end of the engine's output before uciok closes the
\* client with the copy loops never started, and the timeout kills the engine.
C32_SteadyOnlyAfterUciok ==
    /\ loops_started =>
          /\ got_uciok
          /\ Len(to_client) >= 1
          /\ UciokLine(to_client[Len(to_client)])
          /\ ~AnyUciok(SubSeq(to_client, 1, Len(to_client) - 1))
    /\ ~loops_started =>
          /\ client_cmds = <<>>
          /\ Len(client_q) = bt_sent
          /\ \A i \in DOMAIN engine_stdin :
                engine_stdin[i] = <<"uci">> \/ engine_stdin[i] = StartupLine(items[i - 1])
    /\ bt_pc = "await_uciok" => ~AnyUciok(to_client)
    /\ BootGaveUp => ~loops_started
    /\ bt_pc = "left" => bt_closed
    /\ bt_engine = "killed" => BootGaveUp /\ bt_closed

\* a bridge reached its steady state after a line before uciok, with a line of
\* the client waiting all the while
C32_Witness ==
    /\ bt_pc = "steady" /\ Len(to_client) = 2 /\ client_q # <<>>

\* the start-up gave up on a timeout
C32_WitnessTimeout == bt_engine = "killed" /\ bt_pc = "left"

\* ---------------------------------------------------- copy loop claims
\* the numbers of a sequence rise strictly
Rising(s) == \A i, j \in DOMAIN s : i < j => s[i] < s[j]

\* the commands of the client among what the engine received
FromClient(s) == SelectSeq(s, LAMBDA k : k # Isready)

\* C33: within one bridge the commands the client-to-engine loop wrote to the
\* engine are in the order their lines were read from the client, and the
\* lines written to the client are in the order the engine printed them, the
\* only lines of the engine that are missing being those the throttler deferred.
C33_OrderKept ==
    /\ Rising(FromClient(ln_stdin))
    /\ Range(FromClient(ln_stdin)) \subseteq (1..ln_read) \ ln_blank
    /\ Rising(ln_written)
    /\ Range(ln_written) \subseteq DOMAIN out_log
    /\ \A k \in DOMAIN out_log : k \notin Range(ln_written) => ~out_log[k].fwd

\* two commands reached the engine around a heartbeat, and a line of the
\* engine was written after an earlier one had been deferred
C33_Witness ==
    /\ Len(FromClient(ln_stdin)) = 2
    /\ Isready \in Range(ln_stdin)
    /\ \E k \in DOMAIN out_log : ~out_log[k].fwd /\ k + 1 \in Range(ln_written)

\* ------------------------------------------------ deferred line claims
\* line k of the engine is the one the throttler holds in its pending slot
Deferred(k) == Len(out_log) = k /\ ~out_log[k].fwd /\ pending_info = out_log[k].line

\* C40: an info line deferred into the pending slot and still there when the
\* interval is over (forwarding is allowed again) is written to the client in
\* the end.
C40_DeferredIsWritten ==
    \A k \in 1..MaxLines :
        (Deferred(k) /\ WindowOver(clock_ms)) ~> (k \in Range(ln_written))

\* ------------------------------------------------------ sweeper claims
\* a step of the sweeper: records leave the map and no handler has moved
SweeperStep == sessions' # sessions /\ pc' = pc

\* C34: a round of the stale sweeper removes exactly the records older than
\* the threshold and closes the server and client writers of those records;
\* every other record and every other socket is left as it was.
C34_SweepFrame ==
    [][SweeperStep =>
        /\ \A i \in SessionIds :
              sessions'[i] = IF sessions[i] # None /\ sessions[i] \in stale
                             THEN None ELSE sessions[i]
        /\ \A w \in Conn :
              closed'[w] = (closed[w] \/ \E i \in SessionIds :
                               /\ sessions[i] # None /\ sessions[i] \in stale
                               /\ w \in Legs(sessions[i]))
        /\ UNCHANGED <<client, paired_event, clientOf, session, peerEof, pipe, pipeTo,
                       sid, sent, rd, lines, data>>]_vars

\* the sweeper has removed the paired record of one id (its handler still in
\* the copy, both writers closed) and left the younger record of another id
C34_Witness ==
    \E c \in Conn, d \in Conn :
        /\ pc[c] = "s_pipe" /\ c \in stale /\ sessions[sid[c]] = None
        /\ closed[c] /\ clientOf[c] # None /\ closed[clientOf[c]]
        /\ pipe[c] # "done"
        /\ d # c /\ sid[d] # None /\ sessions[sid[d]] = d /\ d \notin stale /\ ~closed[d]

\* ------------------------------------------------- spawned process claims
\* the registry holds process p under some engine name
Referenced(p) == \E n \in EngineNames : sm_sessions[n].process = p

\* C35: every engine process spawned by get_or_create is referenced by the
\* registry for as long as it runs, so that release, expiry and shutdown_all
\* can reach it; overlapping get_or_create calls for one name leave no
\* running process outside the registry.
C35_SpawnedStaysReferenced ==
    \A p \in Proc : procState[p] = "alive" => Referenced(p)

\* ------------------------------------------------- connection limit claims
\* the bridges past the semaphore that hold a running engine
Holders == {b \in Bridge : sem_pc[b] = "holding"}

\* C36: the number of bridges that hold a running engine at one time never
\* exceeds max_connections.
C36_AtMostMaxConnections == Cardinality(Holders) <= MAX_CONNECTIONS

\* ------------------------------------------------------ client leg claims
\* connection c went through handle_client_role for the record of server s
\* and was sent CONNECTED
ConnectedTo(c, s) == pc[c] \in {"c_conn_drain", "c_sleep"} /\ session[c] = s

\* C37: a relay session has one client leg: while the server handler relays,
\* the client leg stored in its record is the one it relays, and every client
\* that was sent CONNECTED for the record is that leg.
C37_OneClientLeg ==
    \A s \in Conn :
        pc[s] = "s_pipe" =>
            /\ client[s] = clientOf[s]
            /\ \A c \in Conn : ConnectedTo(c, s) => c = clientOf[s]

\* ---------------------------------------------------- handler end claims
\* the handler of connection c has returned
HandlerOver(c) == pc[c] \in {"done", "cancelled", "p_closed", "x_closed"}

\* the session of handler c is gone from the map: a server handler that waits
\* for a client and whose record was removed, or a client handler whose
\* session's server handler has returned
SessionGone(c) ==
    \/ pc[c] = "s_wait" /\ sessions[sid[c]] # c
    \/ pc[c] = "c_sleep" /\ session[c] # None /\ HandlerOver(session[c])

\* C38: a relay handler whose session's record has been removed from the map
\* returns: a server handler waiting for a client is woken when the sweeper
\* removes its record, and a client handler returns once its session is over.
C38_HandlersEnd == \A c \in Conn : SessionGone(c) ~> HandlerOver(c)

\* ------------------------------------------------- enabled method claims
\* the greetings that name no other method than m
GreetingsOf(m) ==
    IF m = "token" THEN {"AUTH_REQUIRED"}
    ELSE IF m = "psk" THEN {"AUTH_REQUIRED psk"} ELSE {}

\* the credential line of the method m
LineOf(m) == IF m = "token" THEN "AUTH" ELSE IF m = "psk" THEN "PSK_AUTH" ELSE "none"

\* C39: the handshake accepts a credential only of the method auth_method
\* names: with token a PSK_AUTH line is never answered with AUTH_OK, with psk
\* an AUTH line never is, whatever secrets are configured, and the greeting
\* names only the enabled method.
C39_OnlyEnabledMethod ==
    config.auth_method \in {"token", "psk"} =>
        \A g \in Peer :
            /\ "AUTH_OK" \in Range(glines[g]) => reply[g].cmd = LineOf(config.auth_method)
            /\ glines[g] # <<>> => glines[g][1] \in GreetingsOf(config.auth_method)

\* the configuration with the trust filter and the handshake switched off
GateOff ==
    /\ ~config.enable_trusted_sources /\ config.auth_method = "none"
    /\ ~config.enable_firewall_ip_blocking
    /\ ~config.enable_subnet_connection_attempt_blocking
    /\ firewall = "noop"

\* the parts of the program as constructed and left alone
RelayIdle == InitRelay /\ MAX_SESSIONS = 1
SMIdle == InitSM /\ keepalive = 1
GateIdle == InitGate /\ GateOff
OptIdle == InitOpt /\ DOMAIN engine_customs = {} /\ DOMAIN CUSTOM_VARIABLES = {}
ThrIdle == InitThr /\ throttle_ms = 0
MuxIdle == InitMux /\ ALL_ENGINES = <<>> /\ default_engine = None
DialIdle == InitDial /\ listener_engine = "stockfish" /\ ~listener_config.enable_trusted_sources
HbIdle == InitHb /\ hb_interval = 1
ShutIdle == InitShut
PortsIdle == InitPorts /\ configured = [n \in PortEngine |-> 1] /\ in_use = {}
ReattachIdle == InitReattach
HandlerIdle == InitHandler /\ ch_keepalive = 0
UpkeepIdle == InitUpkeep
BootIdle == InitBootVars /\ items = <<>>
LinesIdle == InitLinesVars
SemIdle == InitSem /\ MAX_CONNECTIONS = 1

\* the relay server alone: the bridge's variables stay as constructed
InitRelayAlone == InitRelay /\ SMIdle /\ GateIdle /\ OptIdle /\ ThrIdle /\ MuxIdle /\ DialIdle /\ HbIdle /\ ShutIdle /\ PortsIdle /\ ReattachIdle /\ HandlerIdle /\ UpkeepIdle /\ BootIdle /\ LinesIdle /\ SemIdle

SpecRelay == InitRelayAlone /\ [][NextRelay]_vars

\* the session manager and its bridges alone
InitSMAlone == InitSM /\ RelayIdle /\ GateIdle /\ OptIdle /\ ThrIdle /\ MuxIdle /\ DialIdle /\ HbIdle /\ ShutIdle /\ PortsIdle /\ ReattachIdle /\ HandlerIdle /\ UpkeepIdle /\ BootIdle /\ LinesIdle /\ SemIdle

SpecSM == InitSMAlone /\ [][NextSM]_vars

\* the trust gate, the rate filter and the handshake of client_handler alone
InitGateAlone == InitGate /\ RelayIdle /\ SMIdle /\ OptIdle /\ ThrIdle /\ MuxIdle /\ DialIdle /\ HbIdle /\ ShutIdle /\ PortsIdle /\ ReattachIdle /\ HandlerIdle /\ UpkeepIdle /\ BootIdle /\ LinesIdle /\ SemIdle

SpecGate == InitGateAlone /\ [][NextGate]_vars

\* the option override of one bridge's command loop alone
InitOptAlone == InitOpt /\ RelayIdle /\ SMIdle /\ GateIdle /\ ThrIdle /\ MuxIdle /\ DialIdle /\ HbIdle /\ ShutIdle /\ PortsIdle /\ ReattachIdle /\ HandlerIdle /\ UpkeepIdle /\ BootIdle /\ LinesIdle /\ SemIdle

SpecOpt == InitOptAlone /\ [][NextOpt]_vars

\* one output throttler alone
InitThrAlone == InitThr /\ RelayIdle /\ SMIdle /\ GateIdle /\ OptIdle /\ MuxIdle /\ DialIdle /\ HbIdle /\ ShutIdle /\ PortsIdle /\ ReattachIdle /\ HandlerIdle /\ UpkeepIdle /\ BootIdle /\ LinesIdle /\ SemIdle

SpecThr == InitThrAlone /\ [][NextThr]_vars

\* the engine negotiation of the multiplexed port alone
InitMuxAlone == InitMux /\ RelayIdle /\ SMIdle /\ GateIdle /\ OptIdle /\ ThrIdle /\ DialIdle /\ HbIdle /\ ShutIdle /\ PortsIdle /\ ReattachIdle /\ HandlerIdle /\ UpkeepIdle /\ BootIdle /\ LinesIdle /\ SemIdle

SpecMux == InitMuxAlone /\ [][NextMux]_vars

\* the relay dialer of one engine alone
InitDialAlone == InitDial /\ RelayIdle /\ SMIdle /\ GateIdle /\ OptIdle /\ ThrIdle /\ MuxIdle /\ HbIdle /\ ShutIdle /\ PortsIdle /\ ReattachIdle /\ HandlerIdle /\ UpkeepIdle /\ BootIdle /\ LinesIdle /\ SemIdle

SpecDial == InitDialAlone /\ [][NextDial]_vars

\* one heartbeat task alone
InitHbAlone == InitHb /\ RelayIdle /\ SMIdle /\ GateIdle /\ OptIdle /\ ThrIdle /\ MuxIdle /\ DialIdle /\ ShutIdle /\ PortsIdle /\ ReattachIdle /\ HandlerIdle /\ UpkeepIdle /\ BootIdle /\ LinesIdle /\ SemIdle

SpecHb == InitHbAlone /\ [][NextHb]_vars

\* the graceful shutdown of main together with the session manager and its bridges
InitShutAlone == InitShut /\ RelayIdle /\ SMIdle /\ GateIdle /\ OptIdle /\ ThrIdle /\ MuxIdle /\ DialIdle /\ HbIdle /\ PortsIdle /\ ReattachIdle /\ HandlerIdle /\ UpkeepIdle /\ BootIdle /\ LinesIdle /\ SemIdle

SpecShut == InitShutAlone /\ [][NextShut]_vars

\* resolve_ports over descriptors configured with any ports
InitPortsAlone == InitPorts /\ RelayIdle /\ SMIdle /\ GateIdle /\ OptIdle /\ ThrIdle /\ MuxIdle /\ DialIdle /\ HbIdle /\ ShutIdle /\ ReattachIdle /\ HandlerIdle /\ UpkeepIdle /\ BootIdle /\ LinesIdle /\ SemIdle

SpecPorts == InitPortsAlone /\ [][NextPorts]_vars

\* the session manager with the history of its expiry tasks
InitReattachAlone == InitReattach /\ RelayIdle /\ SMIdle /\ GateIdle /\ OptIdle /\ ThrIdle /\ MuxIdle /\ DialIdle /\ HbIdle /\ ShutIdle /\ PortsIdle /\ HandlerIdle /\ UpkeepIdle /\ BootIdle /\ LinesIdle /\ SemIdle

SpecReattach == InitReattachAlone /\ [][NextReattach]_vars

\* one client_handler from the acquisition of its engine to its end
InitHandlerAlone == InitHandler /\ RelayIdle /\ SMIdle /\ GateIdle /\ OptIdle /\ ThrIdle /\ MuxIdle /\ DialIdle /\ HbIdle /\ ShutIdle /\ PortsIdle /\ ReattachIdle /\ UpkeepIdle /\ BootIdle /\ LinesIdle /\ SemIdle

SpecHandler == InitHandlerAlone /\ [][NextHandler]_vars

\* the relay server with its stale sweeper and handlers that are cancelled
InitUpkeepAlone == InitUpkeep /\ RelayIdle /\ SMIdle /\ GateIdle /\ OptIdle /\ ThrIdle /\ MuxIdle /\ DialIdle /\ HbIdle /\ ShutIdle /\ PortsIdle /\ ReattachIdle /\ HandlerIdle /\ BootIdle /\ LinesIdle /\ SemIdle

SpecUpkeep == InitUpkeepAlone /\ [][NextUpkeep]_vars

\* the start-up of one bridge, from uci to the copy loops, with the override map of its engine
InitBootAlone == InitBoot /\ RelayIdle /\ SMIdle /\ GateIdle /\ ThrIdle /\ MuxIdle /\ DialIdle /\ HbIdle /\ ShutIdle /\ PortsIdle /\ ReattachIdle /\ HandlerIdle /\ UpkeepIdle /\ LinesIdle /\ SemIdle

SpecBoot == InitBootAlone /\ [][NextBoot]_vars

\* the two copy loops of one bridge with its throttler
InitLinesAlone == InitLines /\ RelayIdle /\ SMIdle /\ GateIdle /\ OptIdle /\ MuxIdle /\ DialIdle /\ HbIdle /\ ShutIdle /\ PortsIdle /\ ReattachIdle /\ HandlerIdle /\ UpkeepIdle /\ BootIdle /\ SemIdle

SpecLines == InitLinesAlone /\ [][NextLines]_vars

\* the connection semaphore of the client handlers
InitSemAlone == InitSem /\ RelayIdle /\ SMIdle /\ GateIdle /\ OptIdle /\ ThrIdle /\ MuxIdle /\ DialIdle /\ HbIdle /\ ShutIdle /\ PortsIdle /\ ReattachIdle /\ HandlerIdle /\ UpkeepIdle /\ BootIdle /\ LinesIdle

SpecSem == InitSemAlone /\ [][NextSem]_vars

\* the auth handshake of client_handler alone, the trust filter off
InitAuthAlone == InitAuth /\ RelayIdle /\ SMIdle /\ OptIdle /\ ThrIdle /\ MuxIdle /\ DialIdle /\ HbIdle /\ ShutIdle /\ PortsIdle /\ ReattachIdle /\ HandlerIdle /\ UpkeepIdle /\ BootIdle /\ LinesIdle /\ SemIdle

SpecAuth == InitAuthAlone /\ [][NextAuth]_vars

\* the relay server with connections that all follow the protocol
InitCopyAlone == InitCopy /\ SMIdle /\ GateIdle /\ OptIdle /\ ThrIdle /\ MuxIdle /\ DialIdle /\ HbIdle /\ ShutIdle /\ PortsIdle /\ ReattachIdle /\ HandlerIdle /\ UpkeepIdle /\ BootIdle /\ LinesIdle /\ SemIdle

SpecCopy == InitCopyAlone /\ [][NextCopy]_vars

\* the engine-to-client loop of one bridge with its throttler
InitDeferAlone == InitDefer /\ RelayIdle /\ SMIdle /\ GateIdle /\ OptIdle /\ MuxIdle /\ DialIdle /\ HbIdle /\ ShutIdle /\ PortsIdle /\ ReattachIdle /\ HandlerIdle /\ UpkeepIdle /\ BootIdle /\ SemIdle

SpecDefer == InitDeferAlone /\ [][NextDefer]_vars

\* the relay server and its stale sweeper over several session ids
InitSweepAlone == InitSweep /\ SMIdle /\ GateIdle /\ OptIdle /\ ThrIdle /\ MuxIdle /\ DialIdle /\ HbIdle /\ ShutIdle /\ PortsIdle /\ ReattachIdle /\ HandlerIdle /\ BootIdle /\ LinesIdle /\ SemIdle

SpecSweep == InitSweepAlone /\ [][NextSweep]_vars

\* the relay dialer where every pause ends
SpecDialFair == InitDialAlone /\ [][NextDial]_vars /\ FairDial

\* one client_handler whose own steps are always taken
SpecHandlerFair == InitHandlerAlone /\ [][NextHandler]_vars /\ FairHandler

\* the relay server where every pipe and handler that can go on does
SpecCopyFair == InitCopyAlone /\ [][NextCopy]_vars /\ FairCopy

\* the engine-to-client loop where time passes
SpecDeferFair == InitDeferAlone /\ [][NextDefer]_vars /\ FairDefer

\* the relay server and its sweeper where every handler that can go on does
SpecSweepFair == InitSweepAlone /\ [][NextSweep]_vars /\ FairSweep

=============================================================================
